---- MODULE Spec2Model ----
(***************************************************************************)
(* Semantic documentation-staleness engine: the vector store (VectorDb on  *)
(* a vectra LocalIndex), the chunkers and the Indexer.                     *)
(*                                                                         *)
(* Conventions.                                                            *)
(*  - A text is the sequence of its lines (content.split('\n')); the empty *)
(*    string is <<"">>. join('\n') of a line list is the list itself.      *)
(*  - A string built by interpolation (`${filePath}#${startLine}`) is the  *)
(*    tuple of its parts, numbers rendered by ToString.                    *)
(*  - A similarity score is kept in hundredths (0.5 is 50).                *)
(*  - The LocalIndex is the sequence of its items in insertion order; an   *)
(*    update (beginUpdate .. endUpdate / cancelUpdate) works on a copy     *)
(*    that is committed or discarded as the library documents.             *)
(***************************************************************************)
EXTENDS Integers, Sequences, FiniteSets, TLC

VARIABLES
    index,              \* LocalIndex items (committed), in insertion order
    last,               \* what the last completed VectorDb call returned or threw
    fs,                 \* file system: path -> content (lines) or Missing
    listed,             \* the paths findFiles matches (present, included, not excluded)
    mtime,              \* file system: path -> modification time
    parserAvailable,    \* tree-sitter and its grammar can be loaded
    workspaceOpen,      \* vscode.workspace.workspaceFolders is defined
    backend,            \* the embedding backend of the process (pipeline, extractor)
    token,              \* token.isCancellationRequested
    faults,             \* failures of collaborators so far (stat, embed, store write)
    call,               \* the running Indexer.indexFile call, by position
    pass,               \* the running indexWorkspace / indexIncremental call
    lastIndexed         \* path -> what its entries in the index were built from

dbvars == <<index, last>>

envvars == <<fs, listed, mtime, parserAvailable, workspaceOpen, backend, token>>

ixvars == <<faults, call, pass, lastIndexed>>

vars == <<index, last, fs, listed, mtime, parserAvailable, workspaceOpen, backend, token,
          faults, call, pass, lastIndexed>>

(***************************************************************************)
(* Bounds                                                                  *)
(***************************************************************************)
MaxBatch == 2       \* entries in one direct upsertBatch call
MaxTopK == 2        \* largest topK asked of search
MaxFaults == 2      \* collaborator failures in one behaviour
MaxWrites == 1      \* writes to one file in one behaviour
NumFiles == 11      \* files findFiles returns
MaxDocs == 10       \* documentation chunks in a large store the Linter checks
SmallDocs == 3      \* documentation chunks in a small store the Linter checks
MaxCode == 2        \* code chunks in a store the Linter checks
MaxLines == 4       \* lines of a file given to a chunker
MaxChunkSize == 3   \* largest chunkSize of a configuration
MaxTexts == 3       \* texts in one direct embedBatch call
MaxWindows == 6     \* turns of the loop of simpleChunk that are followed

Min(a, b) == IF a <= b THEN a ELSE b

\* let pipeline, let extractor: nothing is loaded. created counts the calls
\* of pipeline(...) that made an extractor; extractor 0 is undefined.
NoBackend == [pipeline |-> FALSE, extractor |-> 0, created |-> 0]

Range(seq) == { seq[i] : i \in 1..Len(seq) }

(***************************************************************************)
(* Embeddings                                                              *)
(***************************************************************************)
\* Normalised embeddings (normalize: true), here all of norm 5.
Vectors == {<<5, 0>>, <<4, 3>>, <<3, 4>>, <<0, 5>>}

RECURSIVE DotFrom(_, _, _)
DotFrom(a, b, i) ==
    IF i > Len(a) THEN 0 ELSE a[i] * b[i] + DotFrom(a, b, i + 1)

Dot(a, b) == DotFrom(a, b, 1)

Norm(a) ==
    LET d == Dot(a, a)
    IN  CHOOSE n \in 0..25 : n * n = d

\* dot(a,b) / (|a| |b|), in hundredths
CosineSimilarity(a, b) == (100 * Dot(a, b)) \div (Norm(a) * Norm(b))

\* The lines the modelled files are written in.
LineCode(line) ==
    CASE line = "# A" -> 1
      [] line = "## B" -> 2
      [] line = "text" -> 3
      [] line = "function f() {}" -> 6
      [] line = "// note" -> 7
      [] Len(line) > 100 -> Len(line) % 5
      [] OTHER -> 0

RECURSIVE TextCode(_, _)
TextCode(text, i) ==
    IF i > Len(text) THEN 0 ELSE i * LineCode(text[i]) + TextCode(text, i + 1)

\* The embeddings of the texts the staleness checks are run on, all of norm
\* 20: the enumeration query of the Linter, three documentation sections,
\* and code at similarity 0.25 .. 1.0 to the section "guide". <<>>: another
\* text.
PhraseVector(text) ==
    CASE text = <<"documentation readme guide">> -> <<12, 16, 0, 0, 0>>
      [] text = <<"guide">> -> <<0, 20, 0, 0, 0>>
      [] text = <<"notes">> -> <<-20, 0, 0, 0, 0>>
      [] text = <<"intro">> -> <<0, 0, 12, 16, 0>>
      [] text = <<"f25()">> -> <<1, 5, 18, 7, 1>>
      [] text = <<"f30()">> -> <<0, 6, 18, 6, 2>>
      [] text = <<"f40()">> -> <<0, 8, 16, 8, 4>>
      [] text = <<"f50()">> -> <<0, 10, 10, 10, 10>>
      [] text = <<"f60()">> -> <<0, 12, 16, 0, 0>>
      [] text = <<"f70()">> -> <<0, 14, 14, 2, 2>>
      [] text = <<"f80()">> -> <<0, 16, 12, 0, 0>>
      [] text = <<"f85()">> -> <<1, 17, 10, 3, 1>>
      [] text = <<"f100()">> -> <<0, 20, 0, 0, 0>>
      [] OTHER -> <<>>

\* The embedding model: a fixed function of the text it is given.
EmbedText(text) ==
    IF PhraseVector(text) # <<>> THEN PhraseVector(text)
    ELSE LET k == TextCode(text, 1) % 4
         IN  CASE k = 0 -> <<0, 5>>
               [] k = 1 -> <<5, 0>>
               [] k = 2 -> <<4, 3>>
               [] OTHER -> <<3, 4>>

(***************************************************************************)
(* VectorDb over the LocalIndex                                            *)
(***************************************************************************)
\* The record insertItem is given: {id, vector, metadata: {text, ...item.metadata}}
IndexRecord(item, embedding) ==
    [id |-> item.id,
     vector |-> embedding,
     metadata |-> [f \in DOMAIN item.metadata \cup {"text"} |->
                      IF f = "text" THEN item.text ELSE item.metadata[f]]]

\* The VectorItem read back from an index record.
ToVectorItem(r) ==
    [id |-> r.id,
     text |-> r.metadata.text,
     metadata |-> [f \in DOMAIN r.metadata \ {"text"} |-> r.metadata[f]]]

\* index.getItem(id): is there an item with this id
HasItem(items, id) == \E i \in 1..Len(items) : items[i].id = id

\* index.deleteItem(id): findIndex + splice of the first item with this id
IndexDeleteItem(items, id) ==
    IF ~HasItem(items, id) THEN items
    ELSE LET k == CHOOSE i \in 1..Len(items) :
                    /\ items[i].id = id
                    /\ \A j \in 1..(i - 1) : items[j].id # id
         IN  SubSeq(items, 1, k - 1) \o SubSeq(items, k + 1, Len(items))

\* index.listItems()
ListItems(items) == items

\* VectorDb.getItemCount
GetItemCount(items) == Len(ListItems(items))

\* upsertItem without the deleteItem of the existing item.
UpsertItemNoDelete(items, item, embedding, insertFails) ==
    IF insertFails
    THEN [items |-> items, ok |-> FALSE]
    ELSE [items |-> Append(items, IndexRecord(item, embedding)), ok |-> TRUE]

\* VectorDb.upsertItem: getItem, deleteItem if it exists, insertItem. Each
\* index call is its own committed update; insertItem throws when the write
\* fails. The result is the index afterwards and whether the call returned.
UpsertItem(items, item, embedding, insertFails) ==
    LET existing == HasItem(items, item.id)
        deleted == IF existing THEN IndexDeleteItem(items, item.id) ELSE items
    IN  IF insertFails
        THEN [items |-> deleted, ok |-> FALSE]
        ELSE [items |-> Append(deleted, IndexRecord(item, embedding)), ok |-> TRUE]

\* The loop of upsertBatch from entry k on: upd is the update's working copy,
\* items the committed index that getItem reads. insertItem throws at entry
\* failAt (a write failure) and when the id is already in the working copy.
RECURSIVE BatchLoop(_, _, _, _, _)
BatchLoop(items, upd, batch, k, failAt) ==
    IF k > Len(batch) THEN [items |-> upd, ok |-> TRUE]
    ELSE LET item == batch[k].item
             existing == HasItem(items, item.id)
             deleted == IF existing THEN IndexDeleteItem(upd, item.id) ELSE upd
         IN  IF k = failAt \/ HasItem(deleted, item.id)
             THEN [items |-> items, ok |-> FALSE]
             ELSE BatchLoop(items,
                            Append(deleted, IndexRecord(item, batch[k].embedding)),
                            batch, k + 1, failAt)

\* upsertBatch without cancelUpdate: a failed batch keeps what it had applied.
RECURSIVE BatchLoopNoCancel(_, _, _, _, _)
BatchLoopNoCancel(items, upd, batch, k, failAt) ==
    IF k > Len(batch) THEN [items |-> upd, ok |-> TRUE]
    ELSE LET item == batch[k].item
             existing == HasItem(items, item.id)
             deleted == IF existing THEN IndexDeleteItem(upd, item.id) ELSE upd
         IN  IF k = failAt \/ HasItem(deleted, item.id)
             THEN [items |-> deleted, ok |-> FALSE]
             ELSE BatchLoopNoCancel(items,
                                    Append(deleted, IndexRecord(item, batch[k].embedding)),
                                    batch, k + 1, failAt)

UpsertBatchNoCancel(items, batch, failAt) ==
    BatchLoopNoCancel(items, items, batch, 1, failAt)

\* VectorDb.upsertBatch: beginUpdate, the loop, endUpdate; on a throw
\* cancelUpdate and rethrow. failAt = 0: no write fails.
UpsertBatch(items, batch, failAt) == BatchLoop(items, items, batch, 1, failAt)

\* findByFilePath with find in place of filter: the first match only.
FindFirstByFilePath(items, filePath) ==
    LET found == SelectSeq(ListItems(items), LAMBDA r : r.metadata.filePath = filePath)
    IN  [i \in 1..Min(1, Len(found)) |-> ToVectorItem(found[i])]

\* VectorDb.findByFilePath
FindByFilePath(items, filePath) ==
    LET found == SelectSeq(ListItems(items), LAMBDA r : r.metadata.filePath = filePath)
    IN  [i \in 1..Len(found) |-> ToVectorItem(found[i])]

RECURSIVE DeleteEach(_, _, _)
DeleteEach(items, found, k) ==
    IF k > Len(found) THEN items
    ELSE DeleteEach(IndexDeleteItem(items, found[k].id), found, k + 1)

\* deleteByFilePath that stops after the first item.
DeleteByFilePathFirst(items, filePath) ==
    DeleteEach(items, FindFirstByFilePath(items, filePath), 1)

\* VectorDb.deleteByFilePath: deleteItem for every item findByFilePath returns
DeleteByFilePath(items, filePath) ==
    DeleteEach(items, FindByFilePath(items, filePath), 1)

\* VectorDb.clear: deleteIndex, createIndex
Clear(items) == <<>>

\* Stable sort by descending score (Array.prototype.sort with b - a): an
\* element comes after those of higher score and those of equal score that
\* were before it.
SortByScore(rs) ==
    LET before == [i \in 1..Len(rs) |->
                      Cardinality({ j \in 1..Len(rs) :
                                      \/ rs[j].score > rs[i].score
                                      \/ rs[j].score = rs[i].score /\ j < i })]
    IN  [k \in 1..Len(rs) |-> rs[CHOOSE i \in 1..Len(rs) : before[i] = k - 1]]

\* index.queryItems(vector, topK): every item scored, sorted, the first topK
QueryItems(items, vector, topK) ==
    LET scored == [i \in 1..Len(items) |->
                      [item |-> items[i],
                       score |-> CosineSimilarity(vector, items[i].vector)]]
        sorted == SortByScore(scored)
    IN  SubSeq(sorted, 1, Min(topK, Len(sorted)))

\* search without the slice(0, topK) after the filter.
SearchNoSlice(items, queryEmbedding, topK, filter, minScore) ==
    LET results == QueryItems(items, queryEmbedding, topK * 2)
        kept == SelectSeq(results, LAMBDA r :
                    /\ ~(r.score < minScore)
                    /\ ~(filter # "all" /\ r.item.metadata.type # filter))
    IN  [i \in 1..Len(kept) |->
            [item |-> ToVectorItem(kept[i].item), score |-> kept[i].score]]

\* VectorDb.search: queryItems(topK * 2), filter, slice(0, topK), map
Search(items, queryEmbedding, topK, filter, minScore) ==
    LET results == QueryItems(items, queryEmbedding, topK * 2)
        kept == SelectSeq(results, LAMBDA r :
                    /\ ~(r.score < minScore)
                    /\ ~(filter # "all" /\ r.item.metadata.type # filter))
        sliced == SubSeq(kept, 1, Min(topK, Len(kept)))
    IN  [i \in 1..Len(sliced) |->
            [item |-> ToVectorItem(sliced[i].item), score |-> sliced[i].score]]

(***************************************************************************)
(* Files                                                                   *)
(***************************************************************************)
\* readFile throws (no such file, or unreadable): no content, not even the
\* single empty line of an empty file.
Missing == <<>>

\* What findFiles returns, in order, and what each file holds.
WorkspaceTable ==
    << [path |-> "w01.md", content |-> <<"# A", "## B">>],
       [path |-> "w02.md", content |-> <<"">>],
       [path |-> "w03.md", content |-> Missing],
       [path |-> "w04.txt", content |-> <<"text">>],
       [path |-> "w05.ts", content |-> <<"// note">>],
       [path |-> "w06.ts", content |-> <<"function f() {}">>],
       [path |-> "w07.ts", content |-> <<" ">>],
       [path |-> "w08.md", content |-> <<"text", "# A">>],
       [path |-> "w09.md", content |-> <<"">>],
       [path |-> "w10.txt", content |-> <<"text">>],
       [path |-> "w11.md", content |-> <<"# A">>],
       [path |-> "w12.ts", content |-> <<"function f() {}">>],
       [path |-> "w13.md", content |-> <<"text">>],
       [path |-> "w14.md", content |-> <<"">>] >>

WorkspacePaths == { WorkspaceTable[i].path : i \in 1..Len(WorkspaceTable) }

Paths == {"a.md", "b.ts"} \cup WorkspacePaths

\* path.extname(filePath).toLowerCase()
ExtName(filePath) ==
    CASE filePath \in {"a.md", "w01.md", "w02.md", "w03.md", "w08.md", "w09.md",
                       "w11.md", "w13.md", "w14.md"} -> ".md"
      [] filePath \in {"b.ts", "w05.ts", "w06.ts", "w07.ts", "w12.ts"} -> ".ts"
      [] OTHER -> ".txt"

IsCode(filePath) == ExtName(filePath) \in {".ts", ".js", ".tsx", ".jsx"}

IsDocs(filePath) == ExtName(filePath) = ".md"

(***************************************************************************)
(* Chunkers                                                                *)
(***************************************************************************)
ChunkSize == 500

ChunkOverlap == 50

\* ids numbered after the items already in the index.
LineIdByCount(filePath, startLine) ==
    <<filePath, ToString(startLine + Len(index))>>

\* `${filePath}#${startLine}`
LineId(filePath, startLine) == <<filePath, ToString(startLine)>>

\* Array.prototype.slice(from, to): a negative index counts from the end
Slice(seq, from, to) ==
    LET k == IF from < 0 THEN (IF Len(seq) + from < 0 THEN 0 ELSE Len(seq) + from)
             ELSE Min(from, Len(seq))
        final == IF to < 0 THEN (IF Len(seq) + to < 0 THEN 0 ELSE Len(seq) + to)
                 ELSE Min(to, Len(seq))
    IN  SubSeq(seq, k + 1, final)

\* line.match(/^(#{1,6})\s+(.+)/): <<>> is null
HeaderMatch(line) ==
    CASE line = "# A" -> <<"#", "A">>
      [] line = "## B" -> <<"##", "B">>
      [] OTHER -> <<>>

\* The chunk with the line after its last one as endLine.
MarkdownChunkEndExclusive(filePath, lastModified, startLine, endLine, currentChunk, currentHeader) ==
    [id |-> LineId(filePath, startLine),
     text |-> currentChunk,
     metadata |-> [type |-> "docs", filePath |-> filePath, startLine |-> startLine,
                   endLine |-> endLine + 1, symbolName |-> currentHeader,
                   lastModified |-> lastModified]]

\* chunks.push({...}) of chunkMarkdown
MarkdownChunk(filePath, lastModified, startLine, endLine, currentChunk, currentHeader) ==
    [id |-> LineId(filePath, startLine),
     text |-> currentChunk,
     metadata |-> [type |-> "docs", filePath |-> filePath, startLine |-> startLine,
                   endLine |-> endLine, symbolName |-> currentHeader,
                   lastModified |-> lastModified]]

\* The loop of chunkMarkdown from line index i (0-based) on.
RECURSIVE MarkdownLoop(_, _, _, _, _)
MarkdownLoop(lines, filePath, lastModified, i, st) ==
    IF ~(i < Len(lines)) THEN st
    ELSE LET line == lines[i + 1]
             headerMatch == HeaderMatch(line)
         IN  IF headerMatch # <<>>
             THEN MarkdownLoop(lines, filePath, lastModified, i + 1,
                      [chunks |-> IF Len(st.currentChunk) > 0
                                  THEN Append(st.chunks,
                                           MarkdownChunk(filePath, lastModified,
                                               st.startLine, i, st.currentChunk,
                                               st.currentHeader))
                                  ELSE st.chunks,
                       currentChunk |-> <<line>>,
                       currentHeader |-> headerMatch[2],
                       startLine |-> i + 1])
             ELSE MarkdownLoop(lines, filePath, lastModified, i + 1,
                      [st EXCEPT !.currentChunk = Append(@, line)])

\* Indexer.chunkMarkdown
ChunkMarkdown(content, filePath, lastModified) ==
    LET st == MarkdownLoop(content, filePath, lastModified, 0,
                  [chunks |-> <<>>, currentChunk |-> <<>>, currentHeader |-> "",
                   startLine |-> 1])
    IN  IF Len(st.currentChunk) > 0
        THEN Append(st.chunks,
                 MarkdownChunk(filePath, lastModified, st.startLine, Len(content),
                               st.currentChunk, st.currentHeader))
        ELSE st.chunks

\* !text.trim() of the joined lines
IsBlank(text) == \A i \in 1..Len(text) : text[i] \in {"", " "}

\* The body of the loop of simpleChunk at line index i (0-based): the chunks
\* with the window pushed when its text is not blank.
SimplePush(lines, filePath, type, lastModified, chunkSize, i, chunks) ==
    LET text == Slice(lines, i, i + chunkSize)
    IN  IF ~IsBlank(text)
        THEN Append(chunks,
                 [id |-> LineId(filePath, i + 1),
                  text |-> text,
                  metadata |-> [type |-> type, filePath |-> filePath,
                                startLine |-> i + 1,
                                endLine |-> Min(i + chunkSize, Len(lines)),
                                lastModified |-> lastModified]])
        ELSE chunks

\* The loop of simpleChunk from line index i (0-based) on, for a chunkSize
\* above chunkOverlap.
RECURSIVE SimpleLoop(_, _, _, _, _, _, _, _)
SimpleLoop(lines, filePath, type, lastModified, chunkSize, chunkOverlap, i, chunks) ==
    IF ~(i < Len(lines)) THEN chunks
    ELSE SimpleLoop(lines, filePath, type, lastModified, chunkSize, chunkOverlap,
                    i + (chunkSize - chunkOverlap),
                    SimplePush(lines, filePath, type, lastModified, chunkSize, i, chunks))

\* Indexer.simpleChunk
SimpleChunk(content, filePath, type, lastModified) ==
    SimpleLoop(content, filePath, type, lastModified, ChunkSize, ChunkOverlap, 0, <<>>)

Undefined == "undefined"

\* The declaration nodes walkNode visits on a line, in the order of the walk:
\* the node's type in declarationTypes, the name extractChunk finds (its first
\* identifier child) and code.substring(startIndex, endIndex). An export
\* statement is a node of type 'other' without an identifier child, and
\* walkNode goes on into the declaration it exports.
DeclarationNodes(line) ==
    CASE line = "function f() {}" ->
             << [type |-> "function", name |-> "f", text |-> "function f() {}"] >>
      [] line = "export function g() {}" ->
             << [type |-> "other", name |-> Undefined,
                 text |-> "export function g() {}"],
                [type |-> "function", name |-> "g", text |-> "function g() {}"] >>
      [] OTHER -> <<>>

\* String.prototype.trim, for the space character
RECURSIVE Trim(_)
Trim(str) ==
    IF Len(str) = 0 THEN str
    ELSE IF SubSeq(str, 1, 1) = " " THEN Trim(SubSeq(str, 2, Len(str)))
    ELSE IF SubSeq(str, Len(str), Len(str)) = " " THEN Trim(SubSeq(str, 1, Len(str) - 1))
    ELSE str

\* line.trim().length
TrimLength(line) == Len(Trim(line))

\* walkNode over the nodes of the lines from line k on: extractChunk for a
\* declaration node, kept when its trimmed text is longer than 10.
RECURSIVE WalkNodes(_, _, _)
WalkNodes(lines, k, chunks) ==
    IF k > Len(lines) THEN chunks
    ELSE LET nodes == SelectSeq(DeclarationNodes(lines[k]),
                                LAMBDA n : TrimLength(n.text) > 10)
         IN  WalkNodes(lines, k + 1,
                 chunks \o [j \in 1..Len(nodes) |->
                               [type |-> nodes[j].type, name |-> nodes[j].name,
                                text |-> <<nodes[j].text>>,
                                startLine |-> k, endLine |-> k]])

\* parseCode when the parser and the grammar load
ParseCode(code) == WalkNodes(code, 1, <<>>)

Language(filePath) ==
    IF ExtName(filePath) = ".ts" \/ ExtName(filePath) = ".tsx"
    THEN "typescript" ELSE "javascript"

\* chunkCode without the catch branch's simpleChunk: no chunks when parseCode
\* throws.
ChunkCodeNoFallback(content, filePath, lastModified, parserOk) ==
    IF parserOk
    THEN LET codeChunks == ParseCode(content)
         IN  [k \in 1..Len(codeChunks) |->
                 [id |-> <<filePath, codeChunks[k].type,
                           IF codeChunks[k].name # Undefined
                           THEN codeChunks[k].name ELSE ToString(k - 1)>>,
                  text |-> codeChunks[k].text,
                  metadata |-> [type |-> "code", filePath |-> filePath,
                                startLine |-> codeChunks[k].startLine,
                                endLine |-> codeChunks[k].endLine,
                                language |-> Language(filePath),
                                symbolName |-> codeChunks[k].name,
                                lastModified |-> lastModified]]]
    ELSE <<>>

\* Indexer.chunkCode: the parsed chunks, or simpleChunk when parseCode throws
ChunkCode(content, filePath, lastModified, parserOk) ==
    IF parserOk
    THEN LET codeChunks == ParseCode(content)
         IN  [k \in 1..Len(codeChunks) |->
                 [id |-> <<filePath, codeChunks[k].type,
                           IF codeChunks[k].name # Undefined
                           THEN codeChunks[k].name ELSE ToString(k - 1)>>,
                  text |-> codeChunks[k].text,
                  metadata |-> [type |-> "code", filePath |-> filePath,
                                startLine |-> codeChunks[k].startLine,
                                endLine |-> codeChunks[k].endLine,
                                language |-> Language(filePath),
                                symbolName |-> codeChunks[k].name,
                                lastModified |-> lastModified]]]
    ELSE SimpleChunk(content, filePath, "code", lastModified)

\* const maxLength = 512
MaxLength == 512

\* text.length of the joined lines
RECURSIVE TextLength(_)
TextLength(text) ==
    IF Len(text) = 0 THEN 0
    ELSE IF Len(text) = 1 THEN Len(text[1])
    ELSE Len(text[1]) + 1 + TextLength(Tail(text))

\* text.substring(0, n) of the joined lines, for 0 <= n
RECURSIVE Substring(_, _)
Substring(text, n) ==
    IF Len(text) = 0 THEN text
    ELSE IF Len(text) = 1 \/ Len(text[1]) >= n
    THEN <<SubSeq(text[1], 1, Min(n, Len(text[1])))>>
    ELSE <<text[1]>> \o Substring(Tail(text), n - Len(text[1]) - 1)

\* text.length > maxLength ? text.substring(0, maxLength) : text
Truncate(text) ==
    IF TextLength(text) > MaxLength THEN Substring(text, MaxLength) ELSE text

\* Embedder.embed: embedWithVscode(truncated), which is embedWithXenova
Embed(text) == EmbedText(Truncate(text))

\* embedBatch without the truncation.
EmbedBatchNoTruncate(texts) == [i \in 1..Len(texts) |-> EmbedText(texts[i])]

\* Embedder.embedBatch: Promise.all(truncated.map(t => embedWithVscode(t))),
\* one embedding per text, in order.
EmbedBatch(texts) ==
    LET truncated == [i \in 1..Len(texts) |-> Truncate(texts[i])]
    IN  [i \in 1..Len(truncated) |-> EmbedText(truncated[i])]

(***************************************************************************)
(* Direct use of the VectorDb                                              *)
(***************************************************************************)
\* The chunks callers hand to the store directly: two of a.md, one of b.ts,
\* each with one of two texts.
DbItems ==
    { [id |-> LineId(p[1], p[2]),
       text |-> t,
       metadata |-> [type |-> IF IsDocs(p[1]) THEN "docs" ELSE "code",
                     filePath |-> p[1], startLine |-> p[2], endLine |-> p[2],
                     lastModified |-> 1]] :
        p \in {<<"a.md", 1>>, <<"a.md", 2>>, <<"b.ts", 1>>},
        t \in {<<"# A">>, <<"function f() {}">>} }

DbEntries == { [item |-> it, embedding |-> EmbedText(it.text)] : it \in DbItems }

RECURSIVE SeqsUpTo(_, _)
SeqsUpTo(S, n) ==
    IF n = 0 THEN {<<>>}
    ELSE LET shorter == SeqsUpTo(S, n - 1)
         IN  shorter \cup { Append(s, x) : s \in shorter, x \in S }

DbPaths == {"a.md", "b.ts"}

NoCall == [op |-> "none"]

InitDb ==
    /\ index = <<>>
    /\ last = NoCall
    /\ fs = [p \in Paths |-> Missing]
    /\ listed = {}
    /\ mtime = [p \in Paths |-> 1]
    /\ parserAvailable = FALSE
    /\ workspaceOpen = FALSE
    /\ backend = NoBackend
    /\ token = FALSE
    /\ faults = 0
    /\ call = [pc |-> "idle"]
    /\ pass = [pc |-> "idle"]
    /\ lastIndexed = [p \in Paths |-> [content |-> Missing, mtime |-> 0, parserOk |-> FALSE]]

DbUpsertItem ==
    \E e \in DbEntries, insertFails \in BOOLEAN :
        LET r == UpsertItem(index, e.item, e.embedding, insertFails)
        IN  /\ last = NoCall
            /\ index' = r.items
            /\ last' = [op |-> "upsertItem", entry |-> e, insertFails |-> insertFails,
                        ok |-> r.ok, before |-> index]
            /\ UNCHANGED <<envvars, ixvars>>

DbUpsertBatch ==
    \E batch \in SeqsUpTo(DbEntries, MaxBatch) :
        \E failAt \in 0..Len(batch) :
            LET r == UpsertBatch(index, batch, failAt)
            IN  /\ last = NoCall
                /\ index' = r.items
                /\ last' = [op |-> "upsertBatch", batch |-> batch, failAt |-> failAt,
                            ok |-> r.ok, before |-> index]
                /\ UNCHANGED <<envvars, ixvars>>

DbDeleteByFilePath ==
    \E p \in DbPaths :
        /\ last = NoCall
        /\ index' = DeleteByFilePath(index, p)
        /\ last' = [op |-> "deleteByFilePath", filePath |-> p, ok |-> TRUE,
                    before |-> index, countBefore |-> GetItemCount(index)]
        /\ UNCHANGED <<envvars, ixvars>>

DbDeleteItem ==
    \E it \in DbItems :
        /\ last = NoCall
        /\ index' = IndexDeleteItem(index, it.id)
        /\ last' = [op |-> "deleteItem", id |-> it.id, ok |-> TRUE, before |-> index]
        /\ UNCHANGED <<envvars, ixvars>>

DbClear ==
    /\ last = NoCall
    /\ index' = Clear(index)
    /\ last' = [op |-> "clear", ok |-> TRUE, before |-> index]
    /\ UNCHANGED <<envvars, ixvars>>

DbSearch ==
    \E q \in Vectors, topK \in 0..MaxTopK, filter \in {"code", "docs", "all"},
       minScore \in {0, 30, 50} :
        /\ last = NoCall
        /\ index' = index
        /\ last' = [op |-> "search", query |-> q, topK |-> topK, filter |-> filter,
                    minScore |-> minScore, ok |-> TRUE, before |-> index,
                    result |-> Search(index, q, topK, filter, minScore)]
        /\ UNCHANGED <<envvars, ixvars>>

\* The caller takes the result; the next call can start.
DbReturn ==
    /\ last # NoCall
    /\ last' = NoCall
    /\ index' = index
    /\ UNCHANGED <<envvars, ixvars>>

NextDb ==
    \/ DbReturn
    \/ DbUpsertItem
    \/ DbUpsertBatch
    \/ DbDeleteByFilePath
    \/ DbDeleteItem
    \/ DbClear
    \/ DbSearch

SpecDb == InitDb /\ [][NextDb]_vars

(***************************************************************************)
(* Indexer.indexFile, one await at a time                                  *)
(***************************************************************************)
BatchSize == 10

IdleCall == [pc |-> "idle"]

IdlePass == [pc |-> "idle"]

\* lastIndexed of a path whose entries are not the result of an indexFile call
NotIndexed == [content |-> Missing, mtime |-> 0, parserOk |-> FALSE]

EntriesOfPath(items, filePath) ==
    SelectSeq(items, LAMBDA r : r.metadata.filePath = filePath)

\* indexFile(uri) is entered. before, prev and countBefore remember the index
\* as the call found it.
NewCall(filePath) ==
    [pc |-> "read", filePath |-> filePath,
     before |-> EntriesOfPath(index, filePath),
     prev |-> lastIndexed[filePath],
     countBefore |-> GetItemCount(index),
     content |-> Missing, mtime |-> 0, parserOk |-> FALSE,
     chunks |-> <<>>, embeddings |-> <<>>, indexed |-> 0]

\* return { indexed: n }
Returned(c, n) == [c EXCEPT !.pc = "returned", !.indexed = n]

\* an exception leaves indexFile
Threw(c) == [c EXCEPT !.pc = "threw"]

\* indexFile from the content readFile gave to the deleteByFilePath call,
\* when stat succeeds
AfterRead(c, content, modified) ==
    IF ~IsCode(c.filePath) /\ ~IsDocs(c.filePath)
    THEN Returned([c EXCEPT !.content = content, !.mtime = modified], 0)
    ELSE [c EXCEPT !.pc = "delete", !.content = content, !.mtime = modified]

\* readFile, the !content test, stat, the extension test
IndexFileRead ==
    /\ call.pc = "read"
    /\ IF fs[call.filePath] = Missing \/ fs[call.filePath] = <<"">>
       THEN /\ call' = Returned(call, 0)
            /\ faults' = faults
       ELSE \/ /\ faults < MaxFaults
               /\ faults' = faults + 1
               /\ call' = Threw(call)
            \/ /\ faults' = faults
               /\ call' = AfterRead(call, fs[call.filePath], mtime[call.filePath])
    /\ UNCHANGED <<index, last, envvars, pass, lastIndexed>>

\* await this.vectorDb.deleteByFilePath(filePath)
IndexFileDelete ==
    /\ call.pc = "delete"
    /\ index' = DeleteByFilePath(index, call.filePath)
    /\ call' = [call EXCEPT !.pc = "chunk"]
    /\ lastIndexed' = [lastIndexed EXCEPT ![call.filePath] = NotIndexed]
    /\ UNCHANGED <<last, envvars, faults, pass>>

\* chunkCode or chunkMarkdown
ChunkFile(content, filePath, lastModified, parserOk) ==
    IF IsCode(filePath)
    THEN ChunkCode(content, filePath, lastModified, parserOk)
    ELSE ChunkMarkdown(content, filePath, lastModified)

\* the chunker, and the chunks.length === 0 test
IndexFileChunk ==
    /\ call.pc = "chunk"
    /\ LET chunks == ChunkFile(call.content, call.filePath, call.mtime, parserAvailable)
       IN  call' = IF Len(chunks) = 0
                   THEN Returned([call EXCEPT !.parserOk = parserAvailable], 0)
                   ELSE [call EXCEPT !.pc = "embed", !.chunks = chunks,
                                     !.parserOk = parserAvailable]
    /\ UNCHANGED <<index, last, envvars, faults, pass, lastIndexed>>

\* await embedder.embedBatch(texts): the embeddings, or the backend throws
IndexFileEmbed ==
    /\ call.pc = "embed"
    /\ \/ /\ faults < MaxFaults
          /\ faults' = faults + 1
          /\ call' = Threw(call)
       \/ /\ faults' = faults
          /\ call' = [call EXCEPT
                 !.pc = "upsert",
                 !.embeddings =
                     EmbedBatch([i \in 1..Len(call.chunks) |-> call.chunks[i].text])]
    /\ UNCHANGED <<index, last, envvars, pass, lastIndexed>>

\* chunks.map((chunk, i) => ({item: chunk, embedding: embeddings[i]}))
BatchItems(chunks, embeddings) ==
    [i \in 1..Len(chunks) |-> [item |-> chunks[i], embedding |-> embeddings[i]]]

\* await this.vectorDb.upsertBatch(items); return { indexed: chunks.length }
IndexFileUpsert ==
    /\ call.pc = "upsert"
    /\ \E failAt \in 0..Len(call.chunks) :
           LET r == UpsertBatch(index, BatchItems(call.chunks, call.embeddings), failAt)
           IN  /\ failAt > 0 => faults < MaxFaults
               /\ faults' = IF failAt > 0 THEN faults + 1 ELSE faults
               /\ index' = r.items
               /\ call' = IF r.ok THEN Returned(call, Len(call.chunks)) ELSE Threw(call)
               /\ lastIndexed' =
                      IF r.ok
                      THEN [lastIndexed EXCEPT ![call.filePath] =
                               [content |-> call.content, mtime |-> call.mtime,
                                parserOk |-> call.parserOk]]
                      ELSE lastIndexed
    /\ UNCHANGED <<last, envvars, pass>>

IndexFileStep ==
    \/ IndexFileRead
    \/ IndexFileDelete
    \/ IndexFileChunk
    \/ IndexFileEmbed
    \/ IndexFileUpsert

(***************************************************************************)
(* indexFile called on its own, between writes to the files                *)
(***************************************************************************)
EditedPaths == {"a.md", "b.ts"}

ContentsOf(filePath) ==
    IF filePath = "a.md"
    THEN {<<"">>, <<"# A">>, <<"text", "# A">>, <<"# A", "## B">>}
    ELSE {<<"function f() {}">>, <<"// note">>, <<" ">>}

InitIdle ==
    /\ index = <<>>
    /\ last = NoCall
    /\ mtime = [p \in Paths |-> 1]
    /\ token = FALSE
    /\ faults = 0
    /\ call = IdleCall
    /\ pass = IdlePass
    /\ lastIndexed = [p \in Paths |-> NotIndexed]

InitFile ==
    /\ InitIdle
    /\ fs = [p \in Paths |->
                CASE p = "a.md" -> <<"# A", "## B">>
                  [] p = "b.ts" -> <<"function f() {}">>
                  [] OTHER -> Missing]
    /\ listed = {}
    /\ parserAvailable \in BOOLEAN
    /\ workspaceOpen = TRUE
    /\ backend = NoBackend

CallIndexFile ==
    \E p \in EditedPaths :
        /\ call.pc = "idle"
        /\ pass.pc = "idle"
        /\ call' = NewCall(p)
        /\ UNCHANGED <<index, last, envvars, faults, pass, lastIndexed>>

IndexFileDone ==
    /\ call.pc \in {"returned", "threw"}
    /\ pass.pc = "idle"
    /\ call' = IdleCall
    /\ UNCHANGED <<index, last, envvars, faults, pass, lastIndexed>>

\* The file is saved with new content.
WriteFile ==
    \E p \in EditedPaths :
        \E c \in ContentsOf(p) :
            /\ call.pc = "idle"
            /\ mtime[p] <= MaxWrites
            /\ fs' = [fs EXCEPT ![p] = c]
            /\ mtime' = [mtime EXCEPT ![p] = @ + 1]
            /\ UNCHANGED <<index, last, listed, parserAvailable, workspaceOpen, backend, token, ixvars>>

\* The file is removed.
RemoveFile ==
    \E p \in EditedPaths :
        /\ call.pc = "idle"
        /\ fs[p] # Missing
        /\ fs' = [fs EXCEPT ![p] = Missing]
        /\ UNCHANGED <<index, last, listed, mtime, parserAvailable, workspaceOpen, backend, token, ixvars>>

NextFile ==
    \/ CallIndexFile
    \/ IndexFileStep
    \/ IndexFileDone
    \/ WriteFile
    \/ RemoveFile

SpecFile == InitFile /\ [][NextFile]_vars

(***************************************************************************)
(* Indexer.indexWorkspace and Indexer.indexIncremental                     *)
(***************************************************************************)
\* this.findFiles(): the matching files, in the order of the workspace
FindFiles ==
    SelectSeq([i \in 1..NumFiles |-> WorkspaceTable[i].path], LAMBDA p : p \in listed)

\* The lists the change detection hands to indexIncremental.
ChangedFileLists ==
    {<<>>} \cup { SubSeq(FindFiles, a, b) : a \in 1..Len(FindFiles),
                                             b \in 1..Len(FindFiles) }

\* The store and the collaborators as a pass finds them.
PassStart == [index |-> index, lastIndexed |-> lastIndexed, faults |-> faults]

\* twin of a pass that is not compared with another one
NoTwin == [on |-> FALSE]

NewWorkspacePass(files) ==
    [pc |-> "batch", kind |-> "workspace", files |-> files, i |-> 0, j |-> 0,
     seen |-> FALSE, stats |-> [indexed |-> 0, skipped |-> 0, errors |-> 0],
     processed |-> 0, outcomes |-> <<>>, start |-> PassStart, twin |-> NoTwin]

NewIncrementalPass(files) ==
    [pc |-> "next", kind |-> "incremental", files |-> files, i |-> 0, j |-> 0,
     seen |-> FALSE, stats |-> [indexed |-> 0, errors |-> 0],
     processed |-> 0, outcomes |-> <<>>, start |-> PassStart, twin |-> NoTwin]

\* files.slice(i, i + batchSize)
Batch(ps) == Slice(ps.files, ps.i, ps.i + BatchSize)

\* The head of the batch loop without the token test.
BatchCheckNoToken(ps, cancelled) ==
    IF ~(ps.i < Len(ps.files)) THEN [ps EXCEPT !.pc = "done"]
    ELSE [ps EXCEPT !.pc = "file", !.j = 0, !.seen = cancelled]

\* The head of the batch loop: i < files.length, then the token test. seen
\* is what the test read.
BatchCheck(ps, cancelled) ==
    IF ~(ps.i < Len(ps.files)) THEN [ps EXCEPT !.pc = "done"]
    ELSE IF cancelled THEN [ps EXCEPT !.pc = "done", !.seen = TRUE]
    ELSE [ps EXCEPT !.pc = "file", !.j = 0, !.seen = FALSE]

\* The await an exception left indexFile from: stat, embedBatch or upsertBatch.
ThrewAt(c) ==
    IF c.pc # "threw" THEN "none"
    ELSE IF c.content = Missing THEN "stat"
    ELSE IF c.embeddings = <<>> THEN "embedBatch"
    ELSE "upsertBatch"

\* What one indexFile call came to.
Outcome(c) ==
    [file |-> c.filePath, threw |-> c.pc = "threw", at |-> ThrewAt(c),
     indexed |-> IF c.pc = "threw" THEN 0 ELSE c.indexed]

\* The try block without its catch: the exception leaves indexWorkspace.
WorkspaceAfterFileNoCatch(ps, c) ==
    IF c.pc = "threw" THEN [ps EXCEPT !.pc = "threw"]
    ELSE [ps EXCEPT
             !.stats = IF c.indexed > 0
                       THEN [ps.stats EXCEPT !.indexed = @ + c.indexed]
                       ELSE [ps.stats EXCEPT !.skipped = @ + 1],
             !.processed = @ + 1,
             !.outcomes = Append(@, Outcome(c)),
             !.j = @ + 1,
             !.pc = "file"]

\* A file without chunks counted as an error.
WorkspaceAfterFileZeroIsError(ps, c) ==
    [ps EXCEPT
        !.stats = IF c.pc = "threw" \/ c.indexed = 0
                  THEN [ps.stats EXCEPT !.errors = @ + 1]
                  ELSE [ps.stats EXCEPT !.indexed = @ + c.indexed],
        !.processed = @ + 1,
        !.outcomes = Append(@, Outcome(c)),
        !.j = @ + 1,
        !.pc = "file"]

\* indexWorkspace: the try/catch around indexFile, and processed++
WorkspaceAfterFile(ps, c) ==
    [ps EXCEPT
        !.stats = IF c.pc = "threw" THEN [ps.stats EXCEPT !.errors = @ + 1]
                  ELSE IF c.indexed > 0
                       THEN [ps.stats EXCEPT !.indexed = @ + c.indexed]
                       ELSE [ps.stats EXCEPT !.skipped = @ + 1],
        !.processed = @ + 1,
        !.outcomes = Append(@, Outcome(c)),
        !.j = @ + 1,
        !.pc = "file"]

\* indexIncremental counting indexed files instead of indexed chunks.
IncrementalAfterFileCountsFiles(ps, c) ==
    [ps EXCEPT
        !.stats = IF c.pc = "threw" THEN [ps.stats EXCEPT !.errors = @ + 1]
                  ELSE [ps.stats EXCEPT !.indexed = @ + 1],
        !.processed = @ + 1,
        !.outcomes = Append(@, Outcome(c)),
        !.i = @ + 1,
        !.pc = "next"]

\* indexIncremental: the try/catch around indexFile, and i++
IncrementalAfterFile(ps, c) ==
    [ps EXCEPT
        !.stats = IF c.pc = "threw" THEN [ps.stats EXCEPT !.errors = @ + 1]
                  ELSE [ps.stats EXCEPT !.indexed = @ + c.indexed],
        !.processed = @ + 1,
        !.outcomes = Append(@, Outcome(c)),
        !.i = @ + 1,
        !.pc = "next"]

InitPass ==
    /\ InitIdle
    /\ fs = [p \in Paths |->
                IF p \in WorkspacePaths
                THEN (CHOOSE e \in Range(WorkspaceTable) : e.path = p).content
                ELSE Missing]
    /\ listed = { WorkspaceTable[i].path : i \in 1..NumFiles }
    /\ parserAvailable \in BOOLEAN
    /\ workspaceOpen \in BOOLEAN
    /\ backend = NoBackend

\* indexWorkspace is called: no workspace folders, or findFiles
StartIndexWorkspace ==
    /\ pass.pc = "idle"
    /\ pass' = IF ~workspaceOpen
               THEN [NewWorkspacePass(<<>>) EXCEPT !.pc = "done"]
               ELSE NewWorkspacePass(FindFiles)
    /\ UNCHANGED <<index, last, envvars, faults, call, lastIndexed>>

\* indexIncremental(changedFiles) is called
StartIndexIncremental ==
    /\ pass.pc = "idle"
    /\ \E files \in ChangedFileLists : pass' = NewIncrementalPass(files)
    /\ UNCHANGED <<index, last, envvars, faults, call, lastIndexed>>

\* for (let i = 0; i < files.length; i += batchSize) { if (cancelled) break;
PassBatchCheck ==
    /\ pass.pc = "batch"
    /\ pass' = BatchCheck(pass, token)
    /\ UNCHANGED <<index, last, envvars, faults, call, lastIndexed>>

\* for (const file of batch): the next file of the batch, or the batch's
\* progress report and i += batchSize
PassBatchFile ==
    /\ pass.pc = "file"
    /\ IF pass.j < Len(Batch(pass))
       THEN /\ call' = NewCall(Batch(pass)[pass.j + 1])
            /\ pass' = [pass EXCEPT !.pc = "await"]
       ELSE /\ call' = call
            /\ pass' = [pass EXCEPT !.pc = "batch", !.i = @ + BatchSize]
    /\ UNCHANGED <<index, last, envvars, faults, lastIndexed>>

\* for (let i = 0; i < changedFiles.length; i++): the next file, or return
PassNextFile ==
    /\ pass.pc = "next"
    /\ IF pass.i < Len(pass.files)
       THEN /\ call' = NewCall(pass.files[pass.i + 1])
            /\ pass' = [pass EXCEPT !.pc = "await"]
       ELSE /\ call' = call
            /\ pass' = [pass EXCEPT !.pc = "done"]
    /\ UNCHANGED <<index, last, envvars, faults, lastIndexed>>

\* indexFile returned or threw into the loop
PassAfterFile ==
    /\ pass.pc = "await"
    /\ call.pc \in {"returned", "threw"}
    /\ pass' = IF pass.kind = "workspace"
               THEN WorkspaceAfterFile(pass, call)
               ELSE IncrementalAfterFile(pass, call)
    /\ call' = IdleCall
    /\ UNCHANGED <<index, last, envvars, faults, lastIndexed>>

\* The user cancels the progress notification.
Cancel ==
    /\ ~token
    /\ pass.pc \notin {"done", "threw"}
    /\ token' = TRUE
    /\ UNCHANGED <<index, last, fs, listed, mtime, parserAvailable, workspaceOpen, backend, ixvars>>

NextPass ==
    \/ StartIndexWorkspace
    \/ StartIndexIncremental
    \/ PassBatchCheck
    \/ PassBatchFile
    \/ PassNextFile
    \/ PassAfterFile
    \/ IndexFileStep
    \/ Cancel

SpecPass == InitPass /\ [][NextPass]_vars

(***************************************************************************)
(* Passes one after the other over a workspace whose files come and go     *)
(***************************************************************************)
\* The files of the small workspace.
SetFiles == {"w01.md", "w06.ts"}

InitSet ==
    /\ InitIdle
    /\ fs = [p \in Paths |->
                IF p \in WorkspacePaths
                THEN (CHOOSE e \in Range(WorkspaceTable) : e.path = p).content
                ELSE Missing]
    /\ listed = SetFiles
    /\ parserAvailable \in BOOLEAN
    /\ workspaceOpen = TRUE
    /\ backend = NoBackend

\* A file is deleted, or moved where the include and exclude patterns do not
\* match it.
FileLeaves ==
    /\ pass.pc = "idle"
    /\ \E p \in listed, deleted \in BOOLEAN :
           /\ listed' = listed \ {p}
           /\ fs' = IF deleted THEN [fs EXCEPT ![p] = Missing] ELSE fs
    /\ UNCHANGED <<index, last, mtime, parserAvailable, workspaceOpen, backend, token, ixvars>>

\* A file can no longer be read.
FileUnreadable ==
    /\ pass.pc = "idle"
    /\ \E p \in listed :
           /\ fs[p] # Missing
           /\ fs' = [fs EXCEPT ![p] = Missing]
    /\ UNCHANGED <<index, last, listed, mtime, parserAvailable, workspaceOpen, backend, token,
                   ixvars>>

\* The pass returns its counters to the caller.
PassReturn ==
    /\ pass.pc = "done"
    /\ pass' = IdlePass
    /\ UNCHANGED <<index, last, envvars, faults, call, lastIndexed>>

\* indexIncremental(files) called on the store as the indexWorkspace pass
\* that just returned found it, with the file list of that pass: the two
\* calls are compared on the same input.
TwinIncremental ==
    /\ pass.pc = "done"
    /\ pass.kind = "workspace"
    /\ ~pass.seen
    /\ index' = pass.start.index
    /\ lastIndexed' = pass.start.lastIndexed
    /\ faults' = pass.start.faults
    /\ pass' = [NewIncrementalPass(pass.files) EXCEPT
                   !.start = pass.start,
                   !.twin = [on |-> TRUE, index |-> index, stats |-> pass.stats,
                             outcomes |-> pass.outcomes]]
    /\ UNCHANGED <<last, envvars, call>>

NextSet ==
    \/ StartIndexWorkspace
    \/ TwinIncremental
    \/ PassBatchCheck
    \/ PassBatchFile
    \/ PassNextFile
    \/ PassAfterFile
    \/ IndexFileStep
    \/ PassReturn
    \/ FileLeaves
    \/ FileUnreadable

SpecSet == InitSet /\ [][NextSet]_vars

(***************************************************************************)
(* Linter: staleness of the documentation chunks of the store              *)
(***************************************************************************)
\* DEFAULT_CONFIG of the Linter, scores in hundredths
Threshold == 85

SeverityCritical == 50

SeverityWarning == 70

\* checkDocItem: topK and minScore of the search for related code
RelatedTopK == 5

RelatedMinScore == 30

\* getDocItems: topK of the search that enumerates the documentation
DocTopK == 1000

\* shouldIgnore: 'docs/gallery/**' and 'CHANGELOG.md' as regular expressions,
\* tested on the paths of the model
ShouldIgnore(path) == path \in {"docs/gallery/demo.md", "CHANGELOG.md"}

\* filePath.includes(path)
Includes(filePath, path) ==
    CASE path = "" -> TRUE
      [] path = "docs" -> filePath \in {"docs/guide.md", "docs/gallery/demo.md"}
      [] path = "README" -> filePath = "README.md"
      [] OTHER -> FALSE

\* metadata.symbolName, undefined when the chunker set none
SymbolOf(metadata) ==
    IF "symbolName" \in DOMAIN metadata THEN metadata.symbolName ELSE Undefined

\* a || b on strings
OrElse(a, b) == IF a = Undefined \/ a = "" THEN b ELSE a

\* Math.max(...relatedCode.map(r => r.score)) of a non-empty list
RECURSIVE MaxScore(_)
MaxScore(results) ==
    IF Len(results) = 1 THEN results[1].score
    ELSE LET m == MaxScore(Tail(results))
         IN  IF results[1].score >= m THEN results[1].score ELSE m

\* getSeverity with <= in place of <: a boundary value falls in the lower tier.
GetSeverityInclusive(score) ==
    IF score <= SeverityCritical THEN "critical"
    ELSE IF score <= SeverityWarning THEN "warning"
    ELSE "info"

\* Linter.getSeverity
GetSeverity(score) ==
    IF score < SeverityCritical THEN "critical"
    ELSE IF score < SeverityWarning THEN "warning"
    ELSE "info"

\* Linter.getSuggestion: the sentence of the severity and up to 3 code refs
GetSuggestion(severity, relatedCode) ==
    LET codeRefs == [i \in 1..Min(3, Len(relatedCode)) |->
                        OrElse(SymbolOf(relatedCode[i].item.metadata),
                               relatedCode[i].item.metadata.filePath)]
    IN  <<CASE severity = "critical" ->
                 "Documentation appears significantly outdated. Review and update to match current implementation in: "
            [] severity = "warning" -> "Documentation may need updates. Compare with: "
            [] OTHER -> "Minor drift detected. Consider reviewing: ",
          codeRefs>>

\* The item of a chunk without related code, called critical.
OrphanItemCritical(doc) ==
    [docPath |-> doc.item.metadata.filePath,
     docSection |-> OrElse(SymbolOf(doc.item.metadata), "Unknown section"),
     severity |-> "critical", score |-> 0, relatedCode |-> <<>>,
     suggestion |->
         <<"No related code found. This documentation may be orphaned or covering external topics.",
           <<>> >>]

\* checkDocItem: the item returned when search finds no related code
OrphanItem(doc) ==
    [docPath |-> doc.item.metadata.filePath,
     docSection |-> OrElse(SymbolOf(doc.item.metadata), "Unknown section"),
     severity |-> "info", score |-> 0, relatedCode |-> <<>>,
     suggestion |->
         <<"No related code found. This documentation may be orphaned or covering external topics.",
           <<>> >>]

\* Linter.checkDocItem: the StalenessItem in a list, the empty list for null
CheckDocItem(items, doc) ==
    LET relatedCode == Search(items, EmbedText(doc.item.text), RelatedTopK, "code",
                              RelatedMinScore)
    IN  IF Len(relatedCode) = 0 THEN <<OrphanItem(doc)>>
        ELSE LET maxSimilarity == MaxScore(relatedCode)
                 severity == GetSeverity(maxSimilarity)
             IN  IF severity = "info" /\ maxSimilarity >= Threshold THEN <<>>
                 ELSE << [docPath |-> doc.item.metadata.filePath,
                          docSection |-> OrElse(SymbolOf(doc.item.metadata),
                                                "Unknown section"),
                          severity |-> severity, score |-> maxSimilarity,
                          relatedCode |->
                              [i \in 1..Len(relatedCode) |->
                                  [path |-> relatedCode[i].item.metadata.filePath,
                                   symbol |-> SymbolOf(relatedCode[i].item.metadata),
                                   similarity |-> relatedCode[i].score]],
                          suggestion |-> GetSuggestion(severity, relatedCode)] >>

\* Linter.getDocItems
GetDocItems(items) ==
    Search(items, EmbedText(<<"documentation readme guide">>), DocTopK, "docs", 0)

\* The loop of checkAll and checkPath from document k on: what was checked
\* (the document and what checkDocItem returned for it), ignored paths skipped.
RECURSIVE CheckLoop(_, _, _, _)
CheckLoop(items, docItems, k, checked) ==
    IF k > Len(docItems) THEN checked
    ELSE IF ShouldIgnore(docItems[k].item.metadata.filePath)
         THEN CheckLoop(items, docItems, k + 1, checked)
         ELSE CheckLoop(items, docItems, k + 1,
                        Append(checked, [doc |-> docItems[k],
                                         out |-> CheckDocItem(items, docItems[k])]))

\* items.push(item) for every non-null item, in order
RECURSIVE PushedItems(_)
PushedItems(checked) ==
    IF checked = <<>> THEN <<>>
    ELSE Head(checked).out \o PushedItems(Tail(checked))

CountSeverity(its, severity) ==
    Cardinality({ k \in 1..Len(its) : its[k].severity = severity })

\* buildReport with the warning branch tested first.
BuildReportWarningFirst(its) ==
    LET total == Len(its)
        critical == CountSeverity(its, "critical")
        warning == CountSeverity(its, "warning")
    IN  [overall |-> IF warning > 0 THEN "warning"
                     ELSE IF critical > 0 THEN "critical" ELSE "healthy",
         score |-> IF warning > 0 THEN [num |-> 2 * total - warning, den |-> 2 * total]
                   ELSE IF critical > 0 THEN [num |-> total - critical, den |-> total]
                   ELSE [num |-> 1, den |-> 1],
         items |-> SelectSeq(its, LAMBDA i : i.severity # "info" \/ i.score < Threshold),
         summary |-> [total |-> total, healthy |-> total - critical - warning,
                      warning |-> warning, critical |-> critical]]

\* Linter.buildReport. score is the fraction num/den:
\* 1 - critical/total, 1 - (warning/total) * 0.5, or 1.
BuildReport(its) ==
    LET total == Len(its)
        critical == CountSeverity(its, "critical")
        warning == CountSeverity(its, "warning")
        healthy == Cardinality({ k \in 1..Len(its) :
                                   its[k].severity \notin {"critical", "warning"} })
    IN  [overall |-> IF critical > 0 THEN "critical"
                     ELSE IF warning > 0 THEN "warning" ELSE "healthy",
         score |-> IF critical > 0 THEN [num |-> total - critical, den |-> total]
                   ELSE IF warning > 0
                        THEN [num |-> 2 * total - warning, den |-> 2 * total]
                        ELSE [num |-> 1, den |-> 1],
         items |-> SelectSeq(its, LAMBDA i : i.severity # "info" \/ i.score < Threshold),
         summary |-> [total |-> total, healthy |-> healthy, warning |-> warning,
                      critical |-> critical]]

\* Linter.checkAll: the report, with what the loop checked
CheckAll(items) ==
    LET checked == CheckLoop(items, GetDocItems(items), 1, <<>>)
    IN  [report |-> BuildReport(PushedItems(checked)), checked |-> checked]

\* Linter.checkPath
CheckPath(items, path) ==
    LET filtered == SelectSeq(GetDocItems(items),
                              LAMBDA d : Includes(d.item.metadata.filePath, path))
        checked == CheckLoop(items, filtered, 1, <<>>)
    IN  [report |-> BuildReport(PushedItems(checked)), checked |-> checked]

(***************************************************************************)
(* Staleness checks on stores of documentation and code chunks             *)
(***************************************************************************)
\* The k-th documentation chunk of a store, as chunkMarkdown makes it. In
\* layout 2 the first chunk is the section "notes" of README.md and the
\* second the section "intro", in layout 3 the second and third chunks are
\* of ignored paths. The other chunks are sections "guide".
DocChunkAt(k, layout) ==
    LET filePath == CASE layout = 2 /\ k = 1 -> "README.md"
                      [] layout = 3 /\ k = 2 -> "CHANGELOG.md"
                      [] layout = 3 /\ k = 3 -> "docs/gallery/demo.md"
                      [] OTHER -> "docs/guide.md"
        text == CASE layout = 2 /\ k = 1 -> <<"notes">>
                  [] layout = 2 /\ k = 2 -> <<"intro">>
                  [] OTHER -> <<"guide">>
    IN  MarkdownChunk(filePath, 1, k, k, text, IF k = 1 THEN "" ELSE "Guide")

\* The code texts, by similarity to the section "guide".
CodeTexts ==
    << <<"f25()">>, <<"f30()">>, <<"f40()">>, <<"f50()">>, <<"f60()">>, <<"f70()">>,
       <<"f80()">>, <<"f85()">>, <<"f100()">> >>

\* The code chunk of a text, as chunkCode makes it from a parsed declaration.
CodeChunkOf(text) ==
    [id |-> <<"src/f.ts", "function", text[1]>>,
     text |-> text,
     metadata |-> [type |-> "code", filePath |-> "src/f.ts", startLine |-> 1,
                   endLine |-> 1, language |-> "typescript", symbolName |-> text[1],
                   lastModified |-> 1]]

\* The store after indexing n documentation chunks and the given code.
LintStore(n, layout, codes, codeFirst) ==
    LET docs == [k \in 1..n |-> DocChunkAt(k, layout)]
        code == [k \in 1..Len(codes) |-> CodeChunkOf(codes[k])]
        chunks == IF codeFirst THEN code \o docs ELSE docs \o code
        embeddings == EmbedBatch([i \in 1..Len(chunks) |-> chunks[i].text])
    IN  UpsertBatch(<<>>, BatchItems(chunks, embeddings), 0).items

\* Small stores of every layout with up to MaxCode code chunks, and stores
\* of layout 1 with about as many documentation chunks as search fetches
\* (topK * 2) and at most one code chunk.
LintShapes ==
    { sh \in [n : 0..MaxDocs, layout : 1..3] :
        \/ sh.n <= SmallDocs
        \/ sh.n >= 2 * RelatedTopK - 1 /\ sh.layout = 1 }

CodeChoices(sh) ==
    { T \in SUBSET Range(CodeTexts) :
        Cardinality(T) <= IF sh.n <= SmallDocs THEN MaxCode ELSE 1 }

LintStores ==
    UNION { { LintStore(sh.n, sh.layout, SelectSeq(CodeTexts, LAMBDA t : t \in S),
                        codeFirst) :
                S \in CodeChoices(sh), codeFirst \in BOOLEAN } :
            sh \in LintShapes }

\* The path filters given to checkPath.
PathFilters == {"docs", "README"}

InitLint ==
    /\ index \in LintStores
    /\ last = NoCall
    /\ fs = [p \in Paths |-> Missing]
    /\ listed = {}
    /\ mtime = [p \in Paths |-> 1]
    /\ parserAvailable = FALSE
    /\ workspaceOpen = FALSE
    /\ backend = NoBackend
    /\ token = FALSE
    /\ faults = 0
    /\ call = IdleCall
    /\ pass = IdlePass
    /\ lastIndexed = [p \in Paths |-> NotIndexed]

LintCheckAll ==
    /\ last = NoCall
    /\ LET r == CheckAll(index)
       IN  last' = [op |-> "checkAll", path |-> "", ok |-> TRUE, before |-> index,
                    report |-> r.report, checked |-> r.checked]
    /\ index' = index
    /\ UNCHANGED <<envvars, ixvars>>

LintCheckPath ==
    /\ last = NoCall
    /\ \E path \in PathFilters :
           LET r == CheckPath(index, path)
           IN  last' = [op |-> "checkPath", path |-> path, ok |-> TRUE,
                        before |-> index, report |-> r.report, checked |-> r.checked]
    /\ index' = index
    /\ UNCHANGED <<envvars, ixvars>>

NextLint ==
    \/ LintCheckAll
    \/ LintCheckPath
    \/ DbReturn

SpecLint == InitLint /\ [][NextLint]_vars

(***************************************************************************)
(* A staleness check, one await at a time, while the index is written      *)
(***************************************************************************)
\* The code texts the Indexer writes for src/f.ts during a check.
WrittenCode == {<<"f60()">>, <<"f100()">>}

CheckStores ==
    { LintStore(n, layout, codes, FALSE) :
        n \in 1..SmallDocs, layout \in 1..3, codes \in {<<>>, << <<"f60()">> >>} }

InitCheck ==
    /\ index \in CheckStores
    /\ last = NoCall
    /\ fs = [p \in Paths |-> Missing]
    /\ listed = {}
    /\ mtime = [p \in Paths |-> 1]
    /\ parserAvailable = FALSE
    /\ workspaceOpen = FALSE
    /\ backend = NoBackend
    /\ token = FALSE
    /\ faults = 0
    /\ call = IdleCall
    /\ pass = IdlePass
    /\ lastIndexed = [p \in Paths |-> NotIndexed]

\* checkAll (path "") or checkPath(path) up to the return of getDocItems.
\* stores collects the states the store is in while the check runs.
StartCheck ==
    \E path \in {""} \cup PathFilters :
        /\ call.pc = "idle"
        /\ last = NoCall
        /\ call' = [pc |-> "check",
                    op |-> IF path = "" THEN "checkAll" ELSE "checkPath",
                    path |-> path,
                    docItems |-> IF path = "" THEN GetDocItems(index)
                                 ELSE SelectSeq(GetDocItems(index), LAMBDA d :
                                          Includes(d.item.metadata.filePath, path)),
                    k |-> 1, checked |-> <<>>, stores |-> {index}]
        /\ UNCHANGED <<index, last, envvars, faults, pass, lastIndexed>>

\* One turn of the loop: shouldIgnore, await this.checkDocItem(doc)
CheckNextDoc ==
    /\ call.pc = "check"
    /\ call.k <= Len(call.docItems)
    /\ LET doc == call.docItems[call.k]
       IN  call' = IF ShouldIgnore(doc.item.metadata.filePath)
                   THEN [call EXCEPT !.k = @ + 1]
                   ELSE [call EXCEPT !.k = @ + 1,
                                     !.checked = Append(@, [doc |-> doc,
                                                            out |-> CheckDocItem(index, doc)])]
    /\ UNCHANGED <<index, last, envvars, faults, pass, lastIndexed>>

\* return this.buildReport(items)
CheckReturn ==
    /\ call.pc = "check"
    /\ call.k > Len(call.docItems)
    /\ last' = [op |-> call.op, path |-> call.path, ok |-> TRUE,
                report |-> BuildReport(PushedItems(call.checked)),
                checked |-> call.checked, stores |-> call.stores]
    /\ call' = IdleCall
    /\ UNCHANGED <<index, envvars, faults, pass, lastIndexed>>

\* The check's view of the store after a write.
Written(items) ==
    IF call.pc = "check" THEN [call EXCEPT !.stores = @ \cup {items}] ELSE call

\* await this.vectorDb.deleteByFilePath(filePath) of an indexFile call
WriterDelete ==
    /\ last = NoCall
    /\ index' = DeleteByFilePath(index, "src/f.ts")
    /\ call' = Written(index')
    /\ UNCHANGED <<last, envvars, faults, pass, lastIndexed>>

\* await this.vectorDb.upsertBatch(items) of an indexFile call
WriterUpsert ==
    \E text \in WrittenCode :
        /\ last = NoCall
        /\ index' = UpsertBatch(index, BatchItems(<<CodeChunkOf(text)>>,
                                                  EmbedBatch(<<text>>)), 0).items
        /\ call' = Written(index')
        /\ UNCHANGED <<last, envvars, faults, pass, lastIndexed>>

NextCheck ==
    \/ StartCheck
    \/ CheckNextDoc
    \/ CheckReturn
    \/ WriterDelete
    \/ WriterUpsert
    \/ DbReturn

SpecCheck == InitCheck /\ [][NextCheck]_vars

(***************************************************************************)
(* The chunkers on files of a few lines                                    *)
(***************************************************************************)
MarkdownLines == {"# A", "## B", "text", ""}

\* content.split('\n') of the files: one line at least
MarkdownContents == SeqsUpTo(MarkdownLines, MaxLines) \ {<<>>}

CodeLines == {"function f() {}", "export function g() {}", "// note", " "}

CodeContents == SeqsUpTo(CodeLines, MaxLines) \ {<<>>}

\* One file, a.md or b.ts, with the parser loading or not.
InitChunk ==
    /\ InitIdle
    /\ fs \in { [p \in Paths |-> IF p = "a.md" THEN c ELSE Missing] :
                  c \in MarkdownContents }
           \cup { [p \in Paths |-> IF p = "b.ts" THEN c ELSE Missing] :
                     c \in CodeContents }
    /\ listed = {}
    /\ parserAvailable \in BOOLEAN
    /\ workspaceOpen = FALSE
    /\ backend = NoBackend

\* this.chunkMarkdown(content, filePath, stat.mtime)
CallChunkMarkdown ==
    /\ last = NoCall
    /\ fs["a.md"] # Missing
    /\ last' = [op |-> "chunkMarkdown", content |-> fs["a.md"], ok |-> TRUE,
                result |-> ChunkMarkdown(fs["a.md"], "a.md", mtime["a.md"])]
    /\ UNCHANGED <<index, envvars, ixvars>>

\* await this.chunkCode(content, filePath, stat.mtime)
CallChunkCode ==
    /\ last = NoCall
    /\ fs["b.ts"] # Missing
    /\ last' = [op |-> "chunkCode", content |-> fs["b.ts"], ok |-> TRUE,
                parserOk |-> parserAvailable,
                result |-> ChunkCode(fs["b.ts"], "b.ts", mtime["b.ts"], parserAvailable)]
    /\ UNCHANGED <<index, envvars, ixvars>>

\* this.simpleChunk(content, filePath, 'code', lastModified) from the catch
\* branch of chunkCode, under a configuration whose windows advance.
CallSimpleChunk ==
    \E chunkSize \in 1..MaxChunkSize :
        \E chunkOverlap \in 0..(chunkSize - 1) :
            /\ last = NoCall
            /\ fs["b.ts"] # Missing
            /\ ~parserAvailable
            /\ last' = [op |-> "simpleChunk", content |-> fs["b.ts"], ok |-> TRUE,
                        chunkSize |-> chunkSize, chunkOverlap |-> chunkOverlap,
                        result |-> SimpleLoop(fs["b.ts"], "b.ts", "code", mtime["b.ts"],
                                              chunkSize, chunkOverlap, 0, <<>>)]
            /\ UNCHANGED <<index, envvars, ixvars>>

NextChunk ==
    \/ CallChunkMarkdown
    \/ CallChunkCode
    \/ CallSimpleChunk

SpecChunk == InitChunk /\ [][NextChunk]_vars

(***************************************************************************)
(* simpleChunk, one turn of its loop at a time, under any configuration    *)
(***************************************************************************)
InitWindow ==
    /\ InitIdle
    /\ fs \in { [p \in Paths |-> IF p = "b.ts" THEN c ELSE Missing] :
                  c \in CodeContents }
    /\ listed = {}
    /\ parserAvailable = FALSE
    /\ workspaceOpen = FALSE
    /\ backend = NoBackend

\* new Indexer(vectorDb, {chunkSize, chunkOverlap}) and the call of
\* simpleChunk: const lines = content.split('\n'), let i = 0
StartSimpleChunk ==
    \E chunkSize \in 1..MaxChunkSize :
        \E chunkOverlap \in 0..MaxChunkSize :
            /\ call.pc = "idle"
            /\ last = NoCall
            /\ call' = [pc |-> "windows", filePath |-> "b.ts", lines |-> fs["b.ts"],
                        chunkSize |-> chunkSize, chunkOverlap |-> chunkOverlap,
                        i |-> 0, turns |-> 0, chunks |-> <<>>]
            /\ UNCHANGED <<index, last, envvars, faults, pass, lastIndexed>>

\* One turn of the loop: i < lines.length, the window, i += chunkSize -
\* chunkOverlap. Followed for MaxWindows turns.
WindowStep ==
    /\ call.pc = "windows"
    /\ call.i < Len(call.lines)
    /\ call.turns < MaxWindows
    /\ call' = [call EXCEPT
           !.chunks = SimplePush(call.lines, call.filePath, "code",
                                 mtime[call.filePath], call.chunkSize, call.i, @),
           !.i = @ + (call.chunkSize - call.chunkOverlap),
           !.turns = @ + 1]
    /\ UNCHANGED <<index, last, envvars, faults, pass, lastIndexed>>

\* The loop ends: return chunks
WindowReturn ==
    /\ call.pc = "windows"
    /\ ~(call.i < Len(call.lines))
    /\ last' = [op |-> "simpleChunk", content |-> call.lines, ok |-> TRUE,
                chunkSize |-> call.chunkSize, chunkOverlap |-> call.chunkOverlap,
                result |-> call.chunks]
    /\ call' = IdleCall
    /\ UNCHANGED <<index, envvars, faults, pass, lastIndexed>>

NextWindow ==
    \/ StartSimpleChunk
    \/ WindowStep
    \/ WindowReturn
    \/ DbReturn

SpecWindow == InitWindow /\ [][NextWindow]_vars

(***************************************************************************)
(* The Embedder called directly and through indexFile, on texts under and  *)
(* over the character budget                                               *)
(***************************************************************************)
X100 ==
    "xxxxxxxxxxxxxxxxxxxxxxxxxxxxxxxxxxxxxxxxxxxxxxxxxx" \o
    "xxxxxxxxxxxxxxxxxxxxxxxxxxxxxxxxxxxxxxxxxxxxxxxxxx"

\* A line of 600 characters.
LongLine == X100 \o X100 \o X100 \o X100 \o X100 \o X100

EmbedTexts ==
    {<<"# A">>, <<"text">>, <<LongLine>>, <<"# A", LongLine>>, <<"## B", "text">>}

EmbedContents ==
    {<<"# A", "## B">>, <<"# A", LongLine>>, <<LongLine, "# A", "text">>,
     <<"# A", LongLine, "## B">>}

InitEmbed ==
    /\ InitIdle
    /\ fs \in { [p \in Paths |-> IF p = "a.md" THEN c ELSE Missing] :
                  c \in EmbedContents }
    /\ listed = {}
    /\ parserAvailable = FALSE
    /\ workspaceOpen = TRUE
    /\ backend = NoBackend

\* await embedder.embedBatch(texts)
CallEmbedBatch ==
    \E texts \in SeqsUpTo(EmbedTexts, MaxTexts) :
        /\ last = NoCall
        /\ call.pc = "idle"
        /\ last' = [op |-> "embedBatch", texts |-> texts, ok |-> TRUE,
                    result |-> EmbedBatch(texts)]
        /\ UNCHANGED <<index, envvars, ixvars>>

\* await embedder.embed(text)
CallEmbed ==
    \E text \in EmbedTexts :
        /\ last = NoCall
        /\ call.pc = "idle"
        /\ last' = [op |-> "embed", text |-> text, ok |-> TRUE, result |-> Embed(text)]
        /\ UNCHANGED <<index, envvars, ixvars>>

NextEmbed ==
    \/ CallEmbedBatch
    \/ CallEmbed
    \/ DbReturn
    \/ last = NoCall /\ CallIndexFile
    \/ IndexFileStep
    \/ IndexFileDone

SpecEmbed == InitEmbed /\ [][NextEmbed]_vars

(***************************************************************************)
(* search while one indexFile call is writing                              *)
(***************************************************************************)
\* await vectorDb.search(queryEmbedding, {topK}) by a reader, at any await of
\* the running indexFile call. writer is that call as the search found it.
ReadSearch ==
    \E q \in {<<4, 3>>, <<0, 5>>}, topK \in {MaxTopK, 2 * MaxTopK} :
        /\ last = NoCall
        /\ last' = [op |-> "search", query |-> q, topK |-> topK, filter |-> "all",
                    minScore |-> 0, ok |-> TRUE, before |-> index, writer |-> call,
                    result |-> Search(index, q, topK, "all", 0)]
        /\ UNCHANGED <<index, envvars, ixvars>>

\* The reader has taken its result before the writer or the files move on.
NextRead ==
    \/ last = NoCall /\ CallIndexFile
    \/ last = NoCall /\ IndexFileRead
    \/ last = NoCall /\ IndexFileDelete
    \/ last = NoCall /\ IndexFileChunk
    \/ last = NoCall /\ IndexFileEmbed
    \/ last = NoCall /\ IndexFileUpsert
    \/ last = NoCall /\ IndexFileDone
    \/ last = NoCall /\ WriteFile
    \/ last = NoCall /\ RemoveFile
    \/ ReadSearch
    \/ DbReturn

SpecRead == InitFile /\ [][NextRead]_vars

(***************************************************************************)
(* The lazy initialisation of the embedding backend, one await at a time   *)
(***************************************************************************)
\* embedWithVscode(text) from its call to its first await, with the backend
\* as b: `if (!extractor) await this.initXenova()`, in initXenova
\* `if (!pipeline) await import(...)` and `if (!extractor) extractor = await
\* pipeline(...)`, else embedWithXenova, which calls extractor(text).
\* mine is the extractor this call is making, used the one it called.
TaskFrom(b) ==
    IF b.extractor # 0 THEN [pc |-> "done", mine |-> 0, used |-> b.extractor]
    ELSE IF ~b.pipeline THEN [pc |-> "import", mine |-> 0, used |-> 0]
    ELSE [pc |-> "pipeline", mine |-> b.created + 1, used |-> 0]

\* The backend after that: a call that reaches pipeline(...) makes an extractor.
BackendFrom(b) ==
    IF b.extractor = 0 /\ b.pipeline THEN [b EXCEPT !.created = @ + 1] ELSE b

\* truncated.map(t => this.embedWithVscode(t)): the calls start one after the
\* other, each running to its first await.
RECURSIVE StartTasks(_, _, _)
StartTasks(n, b, tasks) ==
    IF Len(tasks) = n THEN [backend |-> b, tasks |-> tasks]
    ELSE StartTasks(n, BackendFrom(b), Append(tasks, TaskFrom(b)))

InitBackend ==
    /\ InitIdle
    /\ fs = [p \in Paths |-> Missing]
    /\ listed = {}
    /\ parserAvailable = FALSE
    /\ workspaceOpen = FALSE
    /\ backend = NoBackend

\* embed(text), one call of embedWithVscode, or embedBatch(texts), one per text
StartEmbed ==
    \E op \in {"embed", "embedBatch"} :
        \E n \in 1..MaxTexts :
            /\ call.pc = "idle"
            /\ last = NoCall
            /\ op = "embed" => n = 1
            /\ LET st == StartTasks(n, backend, <<>>)
               IN  /\ backend' = st.backend
                   /\ call' = [pc |-> "embedding", op |-> op, tasks |-> st.tasks]
            /\ UNCHANGED <<index, last, fs, listed, mtime, parserAvailable,
                           workspaceOpen, token, faults, pass, lastIndexed>>

\* await import('@xenova/transformers') resumes: pipeline is set, then
\* `if (!extractor)` is tested and pipeline(...) called
TaskImported ==
    \E i \in 1..MaxTexts :
        /\ call.pc = "embedding"
        /\ i <= Len(call.tasks)
        /\ call.tasks[i].pc = "import"
        /\ LET b == [backend EXCEPT !.pipeline = TRUE]
           IN  /\ backend' = BackendFrom(b)
               /\ call' = [call EXCEPT !.tasks[i] =
                               IF b.extractor = 0
                               THEN [pc |-> "pipeline", mine |-> b.created + 1, used |-> 0]
                               ELSE [pc |-> "run", mine |-> 0, used |-> 0]]
        /\ UNCHANGED <<index, last, fs, listed, mtime, parserAvailable,
                       workspaceOpen, token, faults, pass, lastIndexed>>

\* await pipeline(...) resumes: extractor is assigned, initXenova returns
TaskPipeline ==
    \E i \in 1..MaxTexts :
        /\ call.pc = "embedding"
        /\ i <= Len(call.tasks)
        /\ call.tasks[i].pc = "pipeline"
        /\ backend' = [backend EXCEPT !.extractor = call.tasks[i].mine]
        /\ call' = [call EXCEPT !.tasks[i].pc = "run"]
        /\ UNCHANGED <<index, last, fs, listed, mtime, parserAvailable,
                       workspaceOpen, token, faults, pass, lastIndexed>>

\* await this.initXenova() resumes: embedWithXenova calls extractor(text)
TaskRun ==
    \E i \in 1..MaxTexts :
        /\ call.pc = "embedding"
        /\ i <= Len(call.tasks)
        /\ call.tasks[i].pc = "run"
        /\ call' = [call EXCEPT !.tasks[i].pc = "done",
                                !.tasks[i].used = backend.extractor]
        /\ UNCHANGED <<index, last, envvars, faults, pass, lastIndexed>>

\* every text has its embedding: embed or embedBatch returns
EmbedReturn ==
    /\ call.pc = "embedding"
    /\ \A i \in 1..Len(call.tasks) : call.tasks[i].pc = "done"
    /\ last' = [op |-> call.op, ok |-> TRUE,
                used |-> [i \in 1..Len(call.tasks) |-> call.tasks[i].used]]
    /\ call' = IdleCall
    /\ UNCHANGED <<index, envvars, faults, pass, lastIndexed>>

NextBackend ==
    \/ StartEmbed
    \/ TaskImported
    \/ TaskPipeline
    \/ TaskRun
    \/ EmbedReturn
    \/ DbReturn

SpecBackend == InitBackend /\ [][NextBackend]_vars

(***************************************************************************)
(* Properties of the VectorDb, checked under SpecDb                        *)
(***************************************************************************)
CountOfPath(items, filePath) ==
    Cardinality({ i \in 1..Len(items) : items[i].metadata.filePath = filePath })

CountOfId(items, id) == Cardinality({ i \in 1..Len(items) : items[i].id = id })

\* C3: upsertBatch is all-or-nothing. When a write of the batch fails the
\* call throws and the index is exactly the index before the call: nothing
\* of the batch is left, replaced entries are back, and what earlier batches
\* committed is unchanged.
C3_UpsertBatchAllOrNothing ==
    (last.op = "upsertBatch" /\ last.failAt > 0) =>
        /\ ~last.ok
        /\ index = last.before

\* C3 witness: the second of two entries fails after the first replaced a
\* stored entry, with another committed entry in the index.
C3_Witness ==
    /\ last.op = "upsertBatch"
    /\ last.failAt = 2
    /\ HasItem(last.before, last.batch[1].item.id)
    /\ IndexRecord(last.batch[1].item, last.batch[1].embedding) \notin Range(last.before)
    /\ \E r \in Range(last.before) : r.id # last.batch[1].item.id
    /\ index = last.before

\* C4: upsertItem inserts or atomically replaces. After a successful call
\* exactly one entry has the id and it holds the new vector and text; after
\* a failed call an entry stored under the id before is still present.
C4_UpsertItemAtomic ==
    last.op = "upsertItem" =>
        IF last.ok
        THEN /\ CountOfId(index, last.entry.item.id) = 1
             /\ IndexRecord(last.entry.item, last.entry.embedding) \in Range(index)
        ELSE HasItem(last.before, last.entry.item.id) =>
                 HasItem(index, last.entry.item.id)

\* C5: deleteByFilePath(p) removes every entry of p and nothing else: the
\* count drops by the number of entries of p and the entries of the other
\* paths are the same records as before.
C5_DeleteByFilePathFrame ==
    last.op = "deleteByFilePath" =>
        /\ CountOfPath(index, last.filePath) = 0
        /\ GetItemCount(index) =
               last.countBefore - CountOfPath(last.before, last.filePath)
        /\ index = SelectSeq(last.before,
                             LAMBDA r : r.metadata.filePath # last.filePath)

\* C5 witness: two entries of the path are deleted and one of another path stays.
C5_Witness ==
    /\ last.op = "deleteByFilePath"
    /\ CountOfPath(last.before, last.filePath) = 2
    /\ Len(index) = 1
    /\ Len(last.before) = 3

\* C6: search returns at most topK results, in non-increasing score order,
\* each with score >= minScore and, under a 'code' or 'docs' filter, of the
\* kind asked for.
C6_SearchBounds ==
    last.op = "search" =>
        /\ Len(last.result) <= last.topK
        /\ \A i \in 1..(Len(last.result) - 1) :
               last.result[i].score >= last.result[i + 1].score
        /\ \A i \in 1..Len(last.result) :
               /\ last.result[i].score >= last.minScore
               /\ last.filter # "all" =>
                      last.result[i].item.metadata.type = last.filter

\* C6 witness: a docs search that drops a matching entry beyond topK and a
\* code entry, and returns two results of different scores.
C6_Witness ==
    /\ last.op = "search"
    /\ last.filter = "docs"
    /\ last.topK = 2
    /\ Len(last.before) = 3
    /\ Len(last.result) = 2
    /\ last.result[1].score > last.result[2].score
    /\ last.minScore > 0

\* The entries that match the filter and minScore, best first, cut to topK.
TopKOfFiltered(items, queryEmbedding, topK, filter, minScore) ==
    LET scored == [i \in 1..Len(items) |->
                      [item |-> ToVectorItem(items[i]),
                       score |-> CosineSimilarity(queryEmbedding, items[i].vector)]]
        matching == SelectSeq(scored, LAMBDA r :
                        /\ r.score >= minScore
                        /\ (filter = "all" \/ r.item.metadata.type = filter))
        sorted == SortByScore(matching)
    IN  SubSeq(sorted, 1, Min(topK, Len(sorted)))

\* C7: search returns the topK best entries of the filtered set: all entries
\* matching the kind filter with score >= minScore, sorted by descending
\* similarity, then truncated to topK.
C7_SearchTopKOfFiltered ==
    last.op = "search" =>
        last.result =
            TopKOfFiltered(last.before, last.query, last.topK, last.filter,
                           last.minScore)

(***************************************************************************)
(* Properties of Indexer.indexFile, checked under SpecFile                 *)
(***************************************************************************)
\* The index records of the chunks of the file's content as it is now.
CurrentEntries(filePath, parserOk) ==
    LET content == fs[filePath]
        chunks == IF content = Missing \/ content = <<"">> THEN <<>>
                  ELSE ChunkFile(content, filePath, mtime[filePath], parserOk)
    IN  [i \in 1..Len(chunks) |-> IndexRecord(chunks[i], EmbedText(chunks[i].text))]

\* C1: after indexFile(p) returns for a code or markdown path p, the entries
\* of p in the index are exactly the chunks of p's current content, each once
\* (none at all when the content is empty or yields no chunk).
C1_IndexFileExact ==
    (call.pc = "returned" /\ (IsCode(call.filePath) \/ IsDocs(call.filePath))) =>
        EntriesOfPath(index, call.filePath) =
            CurrentEntries(call.filePath, parserAvailable)

\* C2: indexing a file again with unchanged content and modification time
\* leaves the entries of the file (ids, texts, metadata, vectors) and the
\* item count as the first indexing left them.
C2_ReindexIdempotent ==
    (/\ call.pc = "returned"
     /\ call.prev = [content |-> call.content, mtime |-> call.mtime,
                     parserOk |-> call.parserOk]) =>
        /\ EntriesOfPath(index, call.filePath) = call.before
        /\ GetItemCount(index) = call.countBefore

\* C2 witness: a.md with two chunks is indexed a second time, unchanged,
\* with entries of b.ts in the index as well.
C2_Witness ==
    /\ call.pc = "returned"
    /\ call.filePath = "a.md"
    /\ call.prev = [content |-> call.content, mtime |-> call.mtime,
                    parserOk |-> call.parserOk]
    /\ call.indexed = 2
    /\ Len(call.before) = 2
    /\ GetItemCount(index) = 3

(***************************************************************************)
(* Properties of the passes, checked under SpecPass                        *)
(***************************************************************************)
CountThrew(outcomes) ==
    Cardinality({ k \in 1..Len(outcomes) : outcomes[k].threw })

CountSkipped(outcomes) ==
    Cardinality({ k \in 1..Len(outcomes) :
                    ~outcomes[k].threw /\ outcomes[k].indexed = 0 })

RECURSIVE SumIndexed(_)
SumIndexed(outcomes) ==
    IF outcomes = <<>> THEN 0
    ELSE Head(outcomes).indexed + SumIndexed(Tail(outcomes))

YieldsNoChunks(filePath) ==
    \/ fs[filePath] = Missing
    \/ fs[filePath] = <<"">>
    \/ ~IsCode(filePath) /\ ~IsDocs(filePath)
    \/ ChunkFile(fs[filePath], filePath, mtime[filePath], parserAvailable) = <<>>

\* C9: in indexWorkspace a file that yields no chunk (empty, missing or
\* unreadable, unsupported extension, or nothing from the chunker) adds one
\* to skipped and nothing to errors or indexed; a missing workspace returns
\* all-zero counters.
C9_ZeroChunksSkipped ==
    (pass.pc # "idle" /\ pass.kind = "workspace") =>
        /\ pass.stats.skipped = CountSkipped(pass.outcomes)
        /\ pass.stats.errors = CountThrew(pass.outcomes)
        /\ pass.stats.indexed = SumIndexed(pass.outcomes)
        /\ \A k \in 1..Len(pass.outcomes) :
               LET o == pass.outcomes[k]
               IN  /\ (YieldsNoChunks(o.file) /\ ~o.threw) => o.indexed = 0
                   /\ (fs[o.file] = Missing \/ fs[o.file] = <<"">>) => ~o.threw
        /\ ~workspaceOpen =>
               /\ pass.pc = "done"
               /\ pass.stats = [indexed |-> 0, skipped |-> 0, errors |-> 0]

\* C9 witness: a full pass that skipped the empty, missing, unsupported and
\* chunkless files and counted no error.
C9_Witness ==
    /\ pass.pc = "done"
    /\ pass.kind = "workspace"
    /\ workspaceOpen
    /\ Len(pass.outcomes) = NumFiles
    /\ pass.stats.skipped = 7
    /\ pass.stats.errors = 0
    /\ pass.stats.indexed > 0

\* C10: indexWorkspace works in batches of 10 files and reads the token at
\* each batch boundary only. Once a boundary sees the cancellation, no file
\* of that or a later batch is processed, the counters are those of the files
\* processed so far, and the entries of those files are still in the index.
C10_CancelBetweenBatches ==
    (pass.pc # "idle" /\ pass.kind = "workspace") =>
        /\ pass.i % BatchSize = 0
        /\ pass.pc = "batch" => Len(pass.outcomes) = Min(pass.i, Len(pass.files))
        /\ pass.pc \in {"file", "await"} => ~pass.seen
        /\ (pass.pc = "done" /\ pass.seen) =>
               /\ token
               /\ Len(pass.outcomes) = pass.i
               /\ pass.stats = [indexed |-> SumIndexed(pass.outcomes),
                                skipped |-> CountSkipped(pass.outcomes),
                                errors |-> CountThrew(pass.outcomes)]
               /\ \A k \in 1..Len(pass.outcomes) :
                      pass.outcomes[k].indexed > 0 =>
                          CountOfPath(index, pass.outcomes[k].file) =
                              pass.outcomes[k].indexed

\* C10 witness: the pass stops at the boundary after the first batch, with
\* entries of that batch in the index.
C10_Witness ==
    /\ pass.pc = "done"
    /\ pass.seen
    /\ pass.i = BatchSize
    /\ Len(pass.outcomes) = BatchSize
    /\ Len(pass.files) > BatchSize
    /\ pass.stats.indexed > 0
    /\ Len(index) = pass.stats.indexed

\* C11: in indexWorkspace the token is read between files: once the
\* cancellation is requested the running file may complete, but no further
\* file's indexFile is started.
C11_CancelBetweenFiles ==
    [][(/\ pass.pc = "file"
        /\ pass.kind = "workspace"
        /\ pass'.pc = "await") => ~token]_vars

\* C27: the store is keyed by chunk id. After any sequence of upsertItem,
\* upsertBatch (committed or rolled back, also with one id twice in a batch),
\* deleteItem, deleteByFilePath and clear, it holds at most one entry per id,
\* getItemCount() is the number of distinct ids stored, and it is 0 after
\* clear(). Checked under SpecDb.
C27_KeyedById ==
    /\ \A i, j \in 1..Len(index) : index[i].id = index[j].id => i = j
    /\ GetItemCount(index) = Cardinality({ index[i].id : i \in 1..Len(index) })
    /\ last.op = "clear" => GetItemCount(index) = 0

\* C27 witness: upsertItem has replaced an entry of a store of two entries.
C27_Witness ==
    /\ last.op = "upsertItem"
    /\ last.ok
    /\ Len(last.before) = 2
    /\ HasItem(last.before, last.entry.item.id)
    /\ Len(index) = 2

(***************************************************************************)
(* Properties of successive passes, checked under SpecSet                  *)
(***************************************************************************)
\* C12: after an uncancelled indexWorkspace pass the index holds no entry of
\* a file that has left the workspace file set (deleted, excluded or
\* unreadable).
C12_LeftFilesHaveNoEntries ==
    (pass.pc = "done" /\ pass.kind = "workspace" /\ ~pass.seen) =>
        \A p \in WorkspacePaths :
            (p \notin listed \/ fs[p] = Missing) => CountOfPath(index, p) = 0

\* Where the collaborators failed in the calls of a pass, file by file.
Stages(outcomes) == [k \in 1..Len(outcomes) |-> outcomes[k].at]

\* C13: indexIncremental(files) leaves the store in the same state and
\* reports the same indexed and errors totals as an uncancelled
\* indexWorkspace pass over exactly these files, from the same store and with
\* the collaborators failing at the same places.
C13_IncrementalAsWorkspace ==
    (/\ pass.pc = "done"
     /\ pass.twin.on
     /\ Stages(pass.outcomes) = Stages(pass.twin.outcomes)) =>
        /\ index = pass.twin.index
        /\ pass.stats.indexed = pass.twin.stats.indexed
        /\ pass.stats.errors = pass.twin.stats.errors

\* C13 witness: both passes ran over two files from a store that held
\* entries, one file failed in both, the other was indexed, and the store
\* changed.
C13_Witness ==
    /\ pass.pc = "done"
    /\ pass.twin.on
    /\ Len(pass.files) = 2
    /\ Stages(pass.outcomes) = Stages(pass.twin.outcomes)
    /\ pass.start.index # <<>>
    /\ pass.stats.errors = 1
    /\ pass.stats.indexed > 0
    /\ index # pass.start.index
    /\ index = pass.twin.index

(***************************************************************************)
(* Properties of the Linter, checked under SpecLint                        *)
(***************************************************************************)
\* The related code candidates of a documentation chunk: up to 5 nearest
\* code chunks of similarity 0.3 or more.
Candidates(items, doc) ==
    Search(items, EmbedText(doc.item.text), RelatedTopK, "code", RelatedMinScore)

\* The highest similarity among candidates.
BestOf(cand) ==
    CHOOSE x \in { cand[i].score : i \in 1..Len(cand) } :
        \A i \in 1..Len(cand) : cand[i].score <= x

\* The checked chunks that have candidates and whose best similarity is in
\* lo .. hi - 1 (hundredths).
CheckedInTier(lo, hi) ==
    { k \in 1..Len(last.checked) :
        LET cand == Candidates(last.before, last.checked[k].doc)
        IN  Len(cand) > 0 /\ lo <= BestOf(cand) /\ BestOf(cand) < hi }

NoCodeNear(items, doc) ==
    \A i \in 1..Len(items) :
        items[i].metadata.type = "code" =>
            CosineSimilarity(EmbedText(doc.item.text), items[i].vector) < 30

BestCode(items, doc) ==
    LET scores == { CosineSimilarity(EmbedText(doc.item.text), items[i].vector) :
                      i \in { j \in 1..Len(items) : items[j].metadata.type = "code" } }
    IN  CHOOSE x \in scores : \A y \in scores : y <= x

\* C16: a documentation chunk with a code chunk of similarity 0.3 or more in
\* the store is not reported as orphaned and is scored by the highest
\* similarity over all code chunks of the store, however many documentation
\* chunks are closer to it than the code.
C16_ScoredAgainstNearestCode ==
    last.op \in {"checkAll", "checkPath"} =>
        \A k \in 1..Len(last.checked) :
            LET out == last.checked[k].out
                doc == last.checked[k].doc
            IN  ~NoCodeNear(last.before, doc) =>
                    IF BestCode(last.before, doc) >= 85 THEN out = <<>>
                    ELSE /\ Len(out) = 1
                         /\ out[1].relatedCode # <<>>
                         /\ out[1].score = BestCode(last.before, doc)

\* C17: checkAll examines every documentation chunk of the store whose path
\* matches no ignore pattern, and checkPath(p) every such chunk whose path
\* contains p.
C17_EveryDocExamined ==
    last.op \in {"checkAll", "checkPath"} =>
        \A i \in 1..Len(last.before) :
            LET r == last.before[i]
            IN  (/\ r.metadata.type = "docs"
                 /\ ~ShouldIgnore(r.metadata.filePath)
                 /\ last.op = "checkPath" => Includes(r.metadata.filePath, last.path)) =>
                    \E k \in 1..Len(last.checked) : last.checked[k].doc.item.id = r.id

\* C18: with total the number of items buildReport is given: overall is
\* critical and score 1 - critical/total if there is a critical item;
\* otherwise warning and 1 - 0.5 * warning/total if there is a warning item;
\* otherwise healthy and 1, also for no items. summary.total is the sum of
\* the three counts and the score is within 0 .. 1.
C18_ReportAggregation ==
    last.op \in {"checkAll", "checkPath"} =>
        LET its == PushedItems(last.checked)
            total == Len(its)
            critical == Cardinality({ k \in 1..total : its[k].severity = "critical" })
            warning == Cardinality({ k \in 1..total : its[k].severity = "warning" })
            rep == last.report
        IN  /\ rep.summary.total = total
            /\ rep.summary.critical = critical
            /\ rep.summary.warning = warning
            /\ critical > 0 =>
                   /\ rep.overall = "critical"
                   /\ rep.score.num * total = (total - critical) * rep.score.den
            /\ (critical = 0 /\ warning > 0) =>
                   /\ rep.overall = "warning"
                   /\ rep.score.num * 2 * total = (2 * total - warning) * rep.score.den
            /\ (critical = 0 /\ warning = 0) =>
                   /\ rep.overall = "healthy"
                   /\ rep.score.num = rep.score.den
            /\ rep.summary.total =
                   rep.summary.healthy + rep.summary.warning + rep.summary.critical
            /\ rep.score.den > 0
            /\ 0 <= rep.score.num
            /\ rep.score.num <= rep.score.den

\* C18 witness: a report over a critical and a warning item: it is critical
\* with score 1/2.
C18_Witness ==
    /\ last.op = "checkAll"
    /\ last.report.summary = [total |-> 2, healthy |-> 0, warning |-> 1, critical |-> 1]
    /\ last.report.overall = "critical"
    /\ last.report.score = [num |-> 1, den |-> 2]

(***************************************************************************)
(* Properties of the chunkers                                              *)
(***************************************************************************)
\* The fixed-size line windows of the content the running call read.
LineWindows ==
    SimpleChunk(call.content, call.filePath, "code", call.mtime)

\* C19: when the parser is unavailable or throws, indexFile of a code file
\* does not throw because of it (only stat, embedBatch or upsertBatch can
\* make it throw) and the file is indexed with the line-window chunks of
\* its content. Checked under SpecFile.
C19_ParserFailureFallsBack ==
    (call.pc # "idle" /\ IsCode(call.filePath) /\ ~parserAvailable) =>
        /\ call.pc \in {"embed", "upsert"} => call.chunks = LineWindows
        /\ call.pc = "threw" => (call.content = Missing \/ call.chunks # <<>>)
        /\ (call.pc = "returned" /\ call.content # Missing) =>
               /\ call.indexed = Len(LineWindows)
               /\ EntriesOfPath(index, call.filePath) =
                      [i \in 1..Len(LineWindows) |->
                          IndexRecord(LineWindows[i], EmbedText(LineWindows[i].text))]

\* C19 witness: without a parser, a file of one comment line, in which the
\* parser finds no declaration, is indexed as one line-window chunk.
C19_Witness ==
    /\ call.pc = "returned"
    /\ call.filePath = "b.ts"
    /\ ~parserAvailable
    /\ call.content = <<"// note">>
    /\ call.indexed = 1
    /\ Len(EntriesOfPath(index, "b.ts")) = 1
    /\ EntriesOfPath(index, "b.ts")[1].id = LineId("b.ts", 1)

\* C20: chunkMarkdown partitions the file at its heading lines. A chunk
\* starts at every heading and runs to the line before the next heading or
\* the end of the file; the lines before the first heading form one preamble
\* chunk; the chunks are in file order, their line ranges are contiguous and
\* cover 1..N, and there are as many chunks as headings, plus one for a
\* preamble. Checked under SpecChunk.
C20_MarkdownPartition ==
    last.op = "chunkMarkdown" =>
        LET lines == last.content
            chunks == last.result
            N == Len(lines)
            headings == { i \in 1..N : lines[i] \in {"# A", "## B"} }
            preamble == IF 1 \in headings THEN 0 ELSE 1
            NextStart(i) ==
                IF \E h \in headings : h > i
                THEN CHOOSE h \in headings :
                         h > i /\ \A g \in headings : g > i => h <= g
                ELSE N + 1
        IN  /\ Len(chunks) = Cardinality(headings) + preamble
            /\ chunks[1].metadata.startLine = 1
            /\ chunks[Len(chunks)].metadata.endLine = N
            /\ \A k \in 1..(Len(chunks) - 1) :
                   chunks[k + 1].metadata.startLine = chunks[k].metadata.endLine + 1
            /\ \A h \in headings :
                   \E k \in 1..Len(chunks) : chunks[k].metadata.startLine = h
            /\ \A k \in 1..Len(chunks) :
                   LET m == chunks[k].metadata
                   IN  /\ m.startLine <= m.endLine
                       /\ m.endLine = NextStart(m.startLine) - 1
                       /\ m.startLine = 1 \/ m.startLine \in headings
                       /\ chunks[k].text = SubSeq(lines, m.startLine, m.endLine)

\* C20 witness: a preamble line, then '# A', then '## B' with one line of
\* text: three chunks with the line ranges 1..1, 2..2 and 3..4.
C20_Witness ==
    /\ last.op = "chunkMarkdown"
    /\ last.content = <<"text", "# A", "## B", "text">>
    /\ Len(last.result) = 3
    /\ last.result[2].metadata.startLine = 2
    /\ last.result[2].metadata.endLine = 2
    /\ last.result[3].metadata.startLine = 3
    /\ last.result[3].metadata.endLine = 4

\* C21: every chunk of every chunking path (parsed declarations, markdown
\* sections, line windows) round-trips: the lines startLine..endLine of the
\* file are the chunk's text, and 1 <= startLine <= endLine <= number of
\* lines. Checked under SpecChunk.
C21_RoundTrip ==
    last.op \in {"chunkMarkdown", "chunkCode", "simpleChunk"} =>
        \A k \in 1..Len(last.result) :
            LET m == last.result[k].metadata
            IN  /\ 1 <= m.startLine
                /\ m.startLine <= m.endLine
                /\ m.endLine <= Len(last.content)
                /\ last.result[k].text = SubSeq(last.content, m.startLine, m.endLine)

\* C23: chunk ids are unique within a file: no two chunks a chunker returns
\* for one file content have the same id. Checked under SpecChunk.
C23_ChunkIdsUnique ==
    last.op \in {"chunkMarkdown", "chunkCode", "simpleChunk"} =>
        \A j, k \in 1..Len(last.result) :
            last.result[j].id = last.result[k].id => j = k

\* C28: a failed re-index loses nothing. When indexFile(p) throws after it
\* has started re-indexing (the embedding call or upsertBatch fails), the
\* entries the store held for p before the call are still there. Checked
\* under SpecFile.
C28_FailedReindexKeepsEntries ==
    (call.pc = "threw" /\ ThrewAt(call) \in {"embedBatch", "upsertBatch"}) =>
        EntriesOfPath(index, call.filePath) = call.before

\* C28 as amended: when indexFile(p) throws at the embedding call or at
\* upsertBatch, the store holds no entry of p afterwards (the previous ones
\* were deleted, a failed batch was rolled back) and the entries of the other
\* paths are as they were; when it throws before deleteByFilePath (stat
\* fails), the entries of p are as they were. Checked under SpecFile.
C28_FailedReindexLeavesNoEntries ==
    call.pc = "threw" =>
        /\ Len(index) - Len(EntriesOfPath(index, call.filePath))
               = call.countBefore - Len(call.before)
        /\ EntriesOfPath(index, call.filePath) =
               IF ThrewAt(call) = "stat" THEN call.before ELSE <<>>

\* C28 witness: upsertBatch failed at the second chunk of a file that had
\* two entries, and none is left.
C28_Witness ==
    /\ call.pc = "threw"
    /\ ThrewAt(call) = "upsertBatch"
    /\ Len(call.before) = 2
    /\ Len(call.chunks) = 2
    /\ EntriesOfPath(index, call.filePath) = <<>>

\* C29: the indexed counter counts stored entries. When indexFile(p) returns
\* {indexed: n}, the store holds exactly n entries of path p. Checked under
\* SpecFile.
C29_IndexedCountsEntries ==
    call.pc = "returned" =>
        Len(EntriesOfPath(index, call.filePath)) = call.indexed

(***************************************************************************)
(* Properties of reads during a write, checked under SpecRead              *)
(***************************************************************************)
\* The items of a path among the results of a search.
ResultsOfPath(result, filePath) ==
    { it \in { result[i].item : i \in 1..Len(result) } :
        it.metadata.filePath = filePath }

\* C24: a search that runs while one indexFile call re-indexes path p sees,
\* of the entries of p, all those from before the re-index or all those that
\* the re-index writes, when the file has chunks before and after: never
\* none of them and never a part. Stated of a search that asks for at least
\* as many results as the store has entries.
C24_SearchSeesBeforeOrAfter ==
    (/\ last.op = "search"
     /\ last.writer.pc \in {"delete", "chunk", "embed", "upsert"}
     /\ last.topK >= Len(last.before)
     /\ last.writer.before # <<>>
     /\ ChunkFile(last.writer.content, last.writer.filePath, last.writer.mtime,
                  parserAvailable) # <<>>)
    => LET p == last.writer.filePath
           seen == ResultsOfPath(last.result, p)
           pre == { ToVectorItem(last.writer.before[i]) :
                      i \in 1..Len(last.writer.before) }
           post == Range(ChunkFile(last.writer.content, p, last.writer.mtime,
                                   parserAvailable))
       IN  seen = pre \/ seen = post

(***************************************************************************)
(* Properties of a check during writes, checked under SpecCheck            *)
(***************************************************************************)
\* C25: the report of checkAll or checkPath is the report computed on one
\* state the store was in during the check, also when deleteByFilePath and
\* upsertBatch run between the enumeration of the documentation chunks and
\* the searches for their code.
C25_ReportOfOneSnapshot ==
    last.op \in {"checkAll", "checkPath"} =>
        \E store \in last.stores :
            last.report = IF last.op = "checkAll" THEN CheckAll(store).report
                          ELSE CheckPath(store, last.path).report

(***************************************************************************)
(* Properties of the Embedder, checked under SpecEmbed                     *)
(***************************************************************************)
\* The first n characters of a text, counted line by line.
RECURSIVE FirstChars(_, _, _)
FirstChars(text, k, n) ==
    IF k > Len(text) THEN <<>>
    ELSE IF Len(text[k]) >= n \/ k = Len(text)
    THEN <<SubSeq(text[k], 1, IF Len(text[k]) < n THEN Len(text[k]) ELSE n)>>
    ELSE <<text[k]>> \o FirstChars(text, k + 1, n - Len(text[k]) - 1)

\* C22: embedBatch(texts) has one vector per text, the i-th being
\* embed(texts[i]), the vector of the first 512 characters of the text; and
\* every entry indexFile wrote to the store carries the vector of its own
\* chunk text.
C22_EmbedBatchAgreesWithEmbed ==
    /\ last.op = "embedBatch" =>
           /\ Len(last.result) = Len(last.texts)
           /\ \A i \in 1..Len(last.texts) :
                  /\ last.result[i] = Embed(last.texts[i])
                  /\ last.result[i] = EmbedText(FirstChars(last.texts[i], 1, 512))
    /\ \A i \in 1..Len(index) :
           /\ index[i].vector = Embed(index[i].metadata.text)
           /\ index[i].vector = EmbedText(FirstChars(index[i].metadata.text, 1, 512))

\* C22 witness: indexFile has stored two sibling chunks of a file, one of
\* them longer than 512 characters, with different vectors.
C22_Witness ==
    /\ call.pc = "returned"
    /\ Len(index) = 2
    /\ TextLength(index[1].metadata.text) > 512
    /\ index[1].vector # index[2].vector
    /\ index[1].vector # EmbedText(index[1].metadata.text)

(***************************************************************************)
(* Properties of the embedding backend, checked under SpecBackend          *)
(***************************************************************************)
\* C26: the model pipeline is created at most once in the process, and
\* every extractor call of embed and embedBatch uses that one instance,
\* also the concurrent per-text calls embedBatch issues on first use.
C26_BackendCreatedOnce ==
    /\ backend.created <= 1
    /\ call.pc = "embedding" =>
           \A i \in 1..Len(call.tasks) : call.tasks[i].used \in {0, 1}
    /\ last.op \in {"embed", "embedBatch"} =>
           \A i \in 1..Len(last.used) : last.used[i] = 1

(***************************************************************************)
(* Properties of simpleChunk, checked under SpecWindow                     *)
(***************************************************************************)
\* C30: simpleChunk terminates under every configuration the constructor
\* accepts, chunkOverlap >= chunkSize included: every turn of its loop moves
\* the window start forward by a positive number of lines, so the loop ends
\* after at most as many turns as the file has lines.
C30_WindowAdvances ==
    [][(call.pc = "windows" /\ call'.pc = "windows") =>
           /\ call'.i > call.i
           /\ call'.turns <= Len(call.lines)]_vars

====
